---- MODULE Spec2Model ----
(***************************************************************************)
(* A model of pym8190a: the step / segment / sequence data model           *)
(* (elements.py), the sequence-table encoder, the multi-channel program    *)
(* builder MultiChSeq and the registry MultiChSeqDict (pym8190a.py), and   *)
(* the part of the device layer (hardware.py) that allocates, writes and   *)
(* deletes segments and sequence-table rows.                               *)
(*                                                                         *)
(* Durations are held in samples.  The source keeps durations in mus as    *)
(* floats and converts with length_mus2length_smpl; every duration it      *)
(* stores has passed valid_length_mus, so it is a whole number of samples. *)
(* Power and waiting times, floats in the source, are exact rationals      *)
(* here (numerator and denominator).                                       *)
(***************************************************************************)
EXTENDS Integers, Sequences, FiniteSets, TLC

VARIABLES
    \* ---- one SequenceStep and its DataList (elements.py)
    dl,          \* DataList.list of the segment: the WaveSteps' length_smpl
    dlOp,        \* the last list operation and whether it raised
    \* ---- one Sequence handed to the encoder (elements.py)
    encSeq,      \* the Sequence: loop_count, advance_mode, rows
    encArgs,     \* the arguments of the last sequence_table_data_block call
    encOut,      \* its result: the table records, or "raised"
    \* ---- one MultiChSeq under construction (pym8190a.py)
    ch_dict,     \* the channels in the program's scope
    cfgOrder,    \* iteration order of the per-device configuration tables
    status,      \* MultiChSeq.status
    sequences,   \* channel -> the rows of its Sequence.data_list
    precomp,     \* channel -> the coherent offsets used by precompile
    written,     \* MultiChSeq.written
    call,        \* the last call and its outcome
    \* ---- the registry MultiChSeqDict and device memory
    reg,         \* the registry's keys in insertion order
    vals,        \* the registry's values: key -> identity of a MultiChSeq
    progs,       \* the MultiChSeq objects other than the one above, by identity
    debug_mode,  \* MultiChSeqDict.debug_mode
    awgs,        \* device memory: channel -> sequencer table and segments
    running,     \* the devices that are armed (AWG.run)
    log,         \* device operations of the last registry call
    \* ---- threads (write_to_awg_memory with an abort flag, connect_to_awgs)
    pc,          \* thread -> its position and local variables
    abort,       \* the threading.Event handed to write_to_awg_memory
    handles      \* MultiChSeqDict.awgs: device name -> the handle opened

dlVars  == <<dl, dlOp>>
encVars == <<encSeq, encArgs, encOut>>
mcVars  == <<ch_dict, cfgOrder, status, sequences, precomp, written, call>>
regVars == <<reg, vals, progs, debug_mode, awgs, running, log>>
thrVars == <<pc, abort, handles>>
vars    == <<dlVars, encVars, mcVars, regVars, thrVars>>
\* what the steps of the writing thread and of the flag leave alone
abFrame == <<dlVars, encVars, handles, ch_dict, cfgOrder, status, sequences, precomp,
             written, reg, vals, debug_mode, running, log>>
\* what the steps of connect_to_awgs leave alone
connFrame == <<dlVars, encVars, regVars, abort, ch_dict, cfgOrder, status, sequences,
               precomp, written>>

----------------------------------------------------------------------------
(* Bounds of the model *)

\* WaveSteps held by the segment of the DataList specification
MaxListLen == 3
\* start_new_segment calls made by the caller on one MultiChSeq
MaxSegments == 2
\* add_step calls made by the caller on one MultiChSeq
MaxSteps == 2
\* rows of the Sequence handed to the encoder
MaxRows == 3
\* programs the caller registers besides 'wait'
MaxPrograms == 2

----------------------------------------------------------------------------
(* Program constants *)

\* __BLM__ = 384. / __SAMPLE_FREQUENCY__, in samples
BLM == 384
\* 5 * 64 in DataList.missing_smpl and the lower limit of Segments.valid_length
MinSegmentLength == 320
\* the sample vector granularity of DataList.missing_smpl and valid_length
Granularity == 64
\* __MAX_LENGTH_SMPL__ - 1, the longest WaveStep the setters accept
MaxStepLength == 1999999999
\* 2 * 1024 ** 3 samples, the upper limit of Segments.valid_length, in
\* vectors of 64 samples (2 ^ 31 is no integer of the model checker)
MaxSegmentVectors == 33554432

Max(a, b) == IF a >= b THEN a ELSE b
Min(a, b) == IF a <= b THEN a ELSE b

RECURSIVE SumSeq(_)
SumSeq(s) == IF s = << >> THEN 0 ELSE Head(s) + SumSeq(Tail(s))

\* the sequence s without its i-th element (1-based)
RemoveAt(s, i) == SubSeq(s, 1, i - 1) \o SubSeq(s, i + 1, Len(s))

\* the sequence s with v put before its i-th element (1-based, i <= Len+1)
InsertAt(s, i, v) == SubSeq(s, 1, i - 1) \o <<v>> \o SubSeq(s, i, Len(s))

\* the one element of a set: {e(x) : x \in {v}} computes v once however
\* often e uses it
The(S) == CHOOSE x \in S : TRUE

----------------------------------------------------------------------------
(* DataList of a SequenceStep: the list of WaveSteps and the automatic     *)
(* '_missing_smpls_' step.                                                 *)

\* missing_smpl without the minimum length: the samples up to the next
\* multiple of 64 only
missing_smpl_no_minimum(ls) == (-ls) % Granularity

\* DataList.missing_smpl, for the summed length ls of the steps in the list
missing_smpl(ls) == Max(MinSegmentLength - ls, (-ls) % Granularity)

\* A sample count too large for one integer of the model checker is held
\* as whole vectors of 64 samples (v) and the samples beyond them (r).
Wide(n) == [v |-> n \div Granularity, r |-> n % Granularity]

WideAdd(a, b) ==
    [v |-> a.v + b.v + ((a.r + b.r) \div Granularity),
     r |-> (a.r + b.r) % Granularity]

RECURSIVE WideSum(_)
WideSum(s) == IF s = << >> THEN Wide(0) ELSE WideAdd(Wide(Head(s)), WideSum(Tail(s)))

\* DataList.missing_smpl on a wide sum: from 320 samples on, 320 - ls is
\* not positive and the maximum is (-ls) % 64
missing_smpl_wide(w) ==
    IF w.v >= MinSegmentLength \div Granularity
    THEN (Granularity - w.r) % Granularity
    ELSE missing_smpl(w.v * Granularity + w.r)

\* BaseDataList.length_smpl of a SequenceStep: iterating its DataList
\* yields the steps of the list and then missing_smpl_step
segment_length_wide(list) ==
    LET ls == WideSum(list) IN WideAdd(ls, Wide(missing_smpl_wide(ls)))

\* Segments.valid_length: 320 <= length <= 2 * 1024 ** 3 and length % 64 = 0
valid_length_wide(w) ==
    /\ w.v >= MinSegmentLength \div Granularity
    /\ w.v < MaxSegmentVectors \/ (w.v = MaxSegmentVectors /\ w.r = 0)
    /\ w.r = 0

\* the whole-sample lengths a caller gives a WaveStep
StepLengths == {0, 1, 63, 64, 65, 319, 320, 321, 384, MaxStepLength}

\* DataList.insert(i, v): list.insert, an index past the end appends
DataList_insert(list, i, v) == InsertAt(list, Min(i, Len(list)) + 1, v)

\* DataList.__setitem__(i, v): list[i] = v, IndexError past the end
DataList_setitem(list, i, v) ==
    IF i < Len(list) THEN [ok |-> TRUE, list |-> [list EXCEPT ![i + 1] = v]]
                     ELSE [ok |-> FALSE, list |-> list]

\* DataList.__delitem__(i): del list[i], IndexError past the end
DataList_delitem(list, i) ==
    IF i < Len(list) THEN [ok |-> TRUE, list |-> RemoveAt(list, i + 1)]
                     ELSE [ok |-> FALSE, list |-> list]

DlInit ==
    /\ dl = << >>
    /\ dlOp = [op |-> "init", ok |-> TRUE]

\* no thread has been started
ThrIdle == pc = << >> /\ abort = FALSE /\ handles = << >>

DlIdle == dl = << >> /\ dlOp = [op |-> "none", ok |-> TRUE]

\* data_list.insert(i, WaveStep(length_smpl=v)); indices 0 .. len(data_list),
\* where len counts the missing-samples step
Insert ==
    \E i \in 0 .. Len(dl) + 1, v \in StepLengths :
        /\ Len(dl) < MaxListLen
        /\ dl' = DataList_insert(dl, i, v)
        /\ dlOp' = [op |-> "insert", ok |-> TRUE]
        /\ UNCHANGED <<encVars, mcVars, regVars, thrVars>>

\* data_list[i] = WaveStep(length_smpl=v)
SetItem ==
    \E i \in 0 .. Len(dl), v \in StepLengths :
        \E r \in {DataList_setitem(dl, i, v)} :
        /\ dl' = r.list
        /\ dlOp' = [op |-> "set", ok |-> r.ok]
        /\ UNCHANGED <<encVars, mcVars, regVars, thrVars>>

\* del data_list[i]
DelItem ==
    \E i \in 0 .. Len(dl) :
        \E r \in {DataList_delitem(dl, i)} :
        /\ dl' = r.list
        /\ dlOp' = [op |-> "del", ok |-> r.ok]
        /\ UNCHANGED <<encVars, mcVars, regVars, thrVars>>

DlNext == Insert \/ SetItem \/ DelItem

----------------------------------------------------------------------------
(* Configuration tables of pym8190a.py.  A channel is <<device, number>>.  *)

CH_DICT_FULL == {<<"2g", 1>>, <<"2g", 2>>, <<"128m", 1>>, <<"128m", 2>>}
MASTER_AWG == "2g"
MASTER_TRIGGER_CHANNEL == 1
TRIGGER_DELAY_LENGTH == 27 * BLM
TRIGGER_LENGTH == 27 * BLM
SLAVE_TRIGGER_SAFETY_LENGTH == 5 * BLM

\* __MAX_SINE_AVG_POWER__: the channels whose ceiling is not None, and it
HasCeiling(c) == c = <<"128m", 1>>
MAX_SINE_AVG_POWER(c) == 1
\* __AMPLIFIER_POWER__
AMPLIFIER_POWER(c) == IF c[1] = "2g" THEN 5 ELSE 10

\* the two orders in which a dict of the two devices can be iterated
ConfigOrders == {<<"2g", "128m">>, <<"128m", "2g">>}

DevicesOf(cd) == {c[1] : c \in cd}

\* valid_ch_dict: more than one device needs the master and its channel
valid_ch_dict(cd) ==
    Cardinality(DevicesOf(cd)) > 1 =>
        (MASTER_AWG \in DevicesOf(cd) /\ <<MASTER_AWG, MASTER_TRIGGER_CHANNEL>> \in cd)

\* the scopes a program is constructed with
ChDicts ==
    { {<<"128m", 1>>},
      {<<"2g", 1>>, <<"2g", 2>>},
      {<<"2g", 1>>, <<"128m", 1>>} }

----------------------------------------------------------------------------
(* WaveStep, SequenceStep and SequenceStepReuseSegment (elements.py).      *)
(* A row of Sequence.data_list is a record; own = TRUE for a SequenceStep, *)
(* FALSE for a SequenceStepReuseSegment, whose oid names the SequenceStep  *)
(* object it was given as reused_sequence_step.  segment_id and            *)
(* sequence_id are 0 until the attribute has been set (-1 for sequence_id, *)
(* as 0 is a row of the table).                                            *)

\* BaseSequenceStep.set_segment_offsets: 2 ** 32 - 1, as the 32-bit value -1
SegmentEndDefault == -1
\* _sequence_id of a step that has none yet
NoSequenceId == -1

WaveStep(name, type, length_smpl, amplitude, sync_marker) ==
    [name |-> name, type |-> type, length_smpl |-> length_smpl,
     amplitude |-> amplitude, sync_marker |-> sync_marker]

WaitStep(name, length_smpl) == WaveStep(name, "wait", length_smpl, 0, FALSE)

SequenceStep(oid, name, loop_count, advance_mode, steps) ==
    [own |-> TRUE, oid |-> oid, name |-> name, loop_count |-> loop_count,
     advance_mode |-> advance_mode, marker_enable |-> TRUE,
     segment_start_offset |-> 0, segment_end_offset |-> SegmentEndDefault,
     steps |-> steps, segment_id |-> 0, sequence_id |-> NoSequenceId]

SequenceStepReuseSegment(reused, name, loop_count) ==
    [own |-> FALSE, oid |-> reused.oid, name |-> name, loop_count |-> loop_count,
     advance_mode |-> "AUTO", marker_enable |-> TRUE,
     segment_start_offset |-> 0, segment_end_offset |-> SegmentEndDefault,
     steps |-> << >>, segment_id |-> 0, sequence_id |-> NoSequenceId]

Range(s) == {s[i] : i \in DOMAIN s}

\* the SequenceStep object with identity oid among the rows
Owner(rows, oid) == CHOOSE o \in Range(rows) : o.own /\ o.oid = oid

\* SequenceStepReuseSegment.__getattribute__: an attribute the alias does
\* not have itself is read from reused_sequence_step
Resolve(rows, r) == IF r.own THEN r ELSE Owner(rows, r.oid)

\* the data_list of the row itself, without the fallback of the alias
data_list_without_fallback(rows, r) == r.steps

\* step.data_list of a row: the alias has none of its own
data_list(rows, r) == Resolve(rows, r).steps

\* a fresh object identity
NewOid(rows) ==
    IF rows = << >> THEN 1
    ELSE 1 + (CHOOSE m \in {r.oid : r \in Range(rows)} :
                 \A r \in Range(rows) : r.oid <= m)

RECURSIVE StepLengthSum(_)
StepLengthSum(steps) ==
    IF steps = << >> THEN 0 ELSE Head(steps).length_smpl + StepLengthSum(Tail(steps))

\* BaseDataList.length_smpl of the row's segment, padding included
SequenceStep_length_smpl(rows, r) ==
    LET ls == StepLengthSum(data_list(rows, r)) IN ls + missing_smpl(ls)

\* Base.repeated_length_smpl: the row's own loop_count
repeated_length_smpl(rows, r) == SequenceStep_length_smpl(rows, r) * r.loop_count

\* BaseDataList.length_smpl of a Sequence: no padding at this level
sequence_length_smpl(rows) ==
    SumSeq([i \in DOMAIN rows |-> repeated_length_smpl(rows, rows[i])])

\* Sequence(name): loop_count = 1, advance_mode = 'COND'
SequenceLoopCount == 1
SequenceAdvanceMode == "COND"

----------------------------------------------------------------------------
(* RF average power (elements.py, pym8190a.py).                            *)

\* WaveStep.normalized_avg_sine_power: sum(amplitudes ** 2) of a sine step
WaveStep_normalized_avg_sine_power(ws) ==
    IF ws.type = "sine" THEN ws.amplitude * ws.amplitude ELSE 0

RECURSIVE StepPowerSum(_)
StepPowerSum(steps) ==
    IF steps = << >> THEN 0
    ELSE Head(steps).length_smpl * WaveStep_normalized_avg_sine_power(Head(steps))
         + StepPowerSum(Tail(steps))

\* The product of the loop counts of the SequenceSteps of the rows that an
\* alias reuses: the common denominator of the sum below.
RECURSIVE LoopScaleFrom(_, _)
LoopScaleFrom(rows, i) ==
    IF i > Len(rows) THEN 1
    ELSE (IF rows[i].own /\ \E a \in Range(rows) : ~a.own /\ a.oid = rows[i].oid
          THEN rows[i].loop_count ELSE 1) * LoopScaleFrom(rows, i + 1)

LoopScale(rows) == LoopScaleFrom(rows, 1)

\* One term of the sum in BaseDataList.normalized_avg_sine_power of a
\* Sequence, times LoopScale: step.repeated_length_mus (the row's loop
\* count times the segment length) times step.normalized_avg_sine_power
\* (read from the reused SequenceStep: the segment's summed step power over
\* that SequenceStep's length times that SequenceStep's loop count).  The
\* segment length cancels.
PowerTerm(rows, r) ==
    IF r.own THEN LoopScale(rows) * StepPowerSum(r.steps)
    ELSE (LoopScale(rows) \div Owner(rows, r.oid).loop_count)
         * r.loop_count * StepPowerSum(Owner(rows, r.oid).steps)

\* Sequence.normalized_avg_sine_power as the fraction n / d: the sum of the
\* terms over self.repeated_length_mus
normalized_avg_sine_power(rows) ==
    [n |-> SumSeq([i \in DOMAIN rows |-> PowerTerm(rows, rows[i])]),
     d |-> LoopScale(rows) * sequence_length_smpl(rows) * SequenceLoopCount]

\* check_avg_rf_power: max(0, length_mus * (avg_power / max_avg_power - 1))
\* in samples, as the fraction n / d; with avg_power = gain * p.n / p.d the
\* factor length_mus of p.d cancels.  raised: the division by a zero length.
check_avg_rf_power(rows, c) ==
    LET p == normalized_avg_sine_power(rows) IN
    IF p.d = 0 THEN [raised |-> TRUE, n |-> 0, d |-> 1]
    ELSE [raised |-> FALSE,
          n |-> Max(0, AMPLIFIER_POWER(c) * p.n - MAX_SINE_AVG_POWER(c) * p.d),
          d |-> MAX_SINE_AVG_POWER(c) * LoopScale(rows) * SequenceLoopCount]

\* MultiChSeq.additional_wait_time
additional_wait_time(rows, c, ignore_max_avg_power) ==
    IF ignore_max_avg_power THEN [raised |-> FALSE, n |-> 0, d |-> 1]
    ELSE check_avg_rf_power(rows, c)

\* amplifier power * normalized power / ceiling > f10 / 10
PowerRatioAbove(rows, c, f10) ==
    LET p == normalized_avg_sine_power(rows) IN
    10 * AMPLIFIER_POWER(c) * p.n > f10 * MAX_SINE_AVG_POWER(c) * p.d

\* np.ceil(n / d) for n >= 0, d > 0
CeilDiv(n, d) == (n + d - 1) \div d

----------------------------------------------------------------------------
(* MultiChSeq (pym8190a.py).  seqs maps each channel of the scope cd to    *)
(* the rows of its Sequence.                                               *)

\* MultiChSeq.init_sequences
init_sequences(cd) == [c \in cd |-> << >>]

\* index of the first row named name, 0 if there is none
FirstNamed(rows, name) ==
    IF \E i \in DOMAIN rows : rows[i].name = name
    THEN CHOOSE i \in DOMAIN rows :
            rows[i].name = name /\ \A j \in 1 .. i - 1 : rows[j].name # name
    ELSE 0

\* MultiChSeq.start_new_segment: it does not read self.status
start_new_segment(seqs, cd, name, reuse_segment, loop_count) ==
    [c \in cd |->
        LET rows == seqs[c]
            i == FirstNamed(rows, name)
        IN IF reuse_segment /\ i # 0
           THEN Append(rows, SequenceStepReuseSegment(rows[i], name, loop_count))
           ELSE Append(rows, SequenceStep(NewOid(rows), name, loop_count, "AUTO", << >>))]

\* data_list[ssi].data_list.insert(wsi, step) with the default indices: ssi
\* is the last row, wsi = len(data_list) appends; through an alias the
\* list is the one of the reused SequenceStep
InsertWaveStep(rows, step) ==
    LET target == Resolve(rows, rows[Len(rows)]) IN
    [i \in DOMAIN rows |->
        IF rows[i].own /\ rows[i].oid = target.oid
        THEN [rows[i] EXCEPT !.steps = Append(@, step)]
        ELSE rows[i]]

\* add_step without its test of self.status
add_step_no_status_check(seqs, cd, st, pd, name, length_smpl) ==
    IF \E c \in cd : seqs[c] = << >> THEN [ok |-> FALSE, sequences |-> seqs]
    ELSE [ok |-> TRUE,
          sequences |->
            [c \in cd |-> InsertWaveStep(seqs[c], WaitStep(name, length_smpl))]]

\* the tolerance of step_length_mus, 0.1 * (1e-9 * 1e6) mus, in tenths of a
\* sample of 1 / 12e3 mus
LengthTolerance == 12

\* MultiChSeq.step_length_mus(pd, length_mus), length_mus given: lml[0] is
\* length_mus, and lml holds the length of the WaveFile of every robust
\* channel and the length_mus of every other channel that has one
step_length_mus(pd, length_smpl) ==
    [raised |->
        \E c \in DOMAIN pd :
           \/ /\ pd[c].type = "robust"
              /\ 10 * Max(pd[c].wave_file - length_smpl, length_smpl - pd[c].wave_file)
                    > LengthTolerance
           \/ /\ pd[c].type # "robust"
              /\ "length_smpl" \in DOMAIN pd[c]
              /\ 10 * Max(pd[c].length_smpl - length_smpl, length_smpl - pd[c].length_smpl)
                    > LengthTolerance,
     length_smpl |-> length_smpl]

\* MultiChSeq.add_step(pd, length_mus) with length_mus given and default ssi
\* and wsi; pd maps channels of the scope to a step type and amplitude, the
\* other channels get a wait step.  Every channel's pd gets the common
\* length_mus; the type setter of a robust WaveStep then takes the length of
\* the WaveFile
add_step(seqs, cd, st, pd, name, length_smpl) ==
    IF st # 0 THEN [ok |-> FALSE, sequences |-> seqs]
    ELSE IF step_length_mus(pd, length_smpl).raised THEN [ok |-> FALSE, sequences |-> seqs]
    ELSE IF \E c \in cd : seqs[c] = << >> THEN [ok |-> FALSE, sequences |-> seqs]
    ELSE [ok |-> TRUE,
          sequences |->
            [c \in cd |->
                InsertWaveStep(seqs[c],
                    IF c \in DOMAIN pd
                    THEN WaveStep(name, pd[c].type,
                                  IF pd[c].type = "robust" THEN pd[c].wave_file
                                  ELSE step_length_mus(pd, length_smpl).length_smpl,
                                  pd[c].amplitude, FALSE)
                    ELSE WaitStep(name, step_length_mus(pd, length_smpl).length_smpl))]]

Pd(c, type, amplitude) == [x \in {c} |-> [type |-> type, amplitude |-> amplitude]]
EmptyPd == [x \in {} |-> 0]

\* the largest of a set of fractions
FracMax(fs) == CHOOSE f \in fs : \A g \in fs : f.n * g.d >= g.n * f.d

\* MultiChSeq.fix_avg_rf_power from the i-th device of the iteration order
\* on; awtd holds the waiting times gathered for the devices before it.
\* The test "all zero", the new segment and the check of the corrected
\* power sit inside the loop over the devices.
RECURSIVE fix_avg_rf_power_from(_, _, _, _, _, _)
fix_avg_rf_power_from(i, awtd, seqs, cd, order, ignore_max_avg_power) ==
    IF i > Len(order) THEN [raised |-> FALSE, sequences |-> seqs]
    ELSE
      LET limited == {c \in cd : c[1] = order[i] /\ HasCeiling(c)}
          new == {additional_wait_time(seqs[c], c, ignore_max_avg_power) : c \in limited}
          all == awtd \cup {[n |-> w.n, d |-> w.d] : w \in new}
      IN
      IF \E w \in new : w.raised THEN [raised |-> TRUE, sequences |-> seqs]
      ELSE IF \A w \in all : w.n = 0 THEN [raised |-> FALSE, sequences |-> seqs]
      ELSE
        LET m == FracMax(all)
            s1 == start_new_segment(seqs, cd, "rf_power_safety", FALSE,
                                    CeilDiv(m.n, m.d * BLM))
            s2 == add_step(s1, cd, 0, EmptyPd, "", BLM).sequences
        IN
        IF ~ignore_max_avg_power
           /\ \E c \in cd : HasCeiling(c) /\ PowerRatioAbove(s2[c], c, 11)
        THEN [raised |-> TRUE, sequences |-> s2]
        ELSE fix_avg_rf_power_from(i + 1, all, s2, cd, order, ignore_max_avg_power)

fix_avg_rf_power(seqs, cd, order, ignore_max_avg_power) ==
    fix_avg_rf_power_from(1, {}, seqs, cd, order, ignore_max_avg_power)

\* set_master_trigger_settings with the sync marker on every channel
set_master_trigger_settings_all_markers(seqs, cd) ==
    [c \in cd |->
        IF c[1] # MASTER_AWG THEN seqs[c]
        ELSE <<SequenceStep(NewOid(seqs[c]), "triggerwait", 1, "AUTO",
                  << WaveStep("trigger", "wait", TRIGGER_LENGTH, 0, TRUE),
                     WaitStep("waittrigger", TRIGGER_DELAY_LENGTH - TRIGGER_LENGTH) >>)>>
             \o seqs[c]
             \o <<SequenceStep(NewOid(seqs[c]) + 1, "w_trig_safety", 1, "AUTO",
                     << WaitStep("w_trig_safety", SLAVE_TRIGGER_SAFETY_LENGTH) >>)>>]

\* MultiChSeq.set_master_trigger_settings
set_master_trigger_settings(seqs, cd) ==
    [c \in cd |->
        IF c[1] # MASTER_AWG THEN seqs[c]
        ELSE
          LET o == NewOid(seqs[c])
              trigger_step ==
                SequenceStep(o, "triggerwait", 1, "AUTO",
                    << WaveStep("trigger", "wait", TRIGGER_LENGTH, 0,
                                c[2] = MASTER_TRIGGER_CHANNEL),
                       WaitStep("waittrigger", TRIGGER_DELAY_LENGTH - TRIGGER_LENGTH) >>)
              w_trig_safety_step ==
                SequenceStep(o + 1, "w_trig_safety", 1, "AUTO",
                    << WaitStep("w_trig_safety", SLAVE_TRIGGER_SAFETY_LENGTH) >>)
          IN <<trigger_step>> \o seqs[c] \o <<w_trig_safety_step>>]

\* MultiChSeq.set_slave_trigger_settings
set_slave_trigger_settings(seqs, cd) ==
    [c \in cd |->
        IF c[1] = MASTER_AWG THEN seqs[c]
        ELSE Append(seqs[c],
                    SequenceStep(NewOid(seqs[c]), "", 1, "SING",
                                 << WaitStep("w_trig_step", 0) >>))]

\* finalize without its test of self.status
finalize_no_status_check(seqs, cd, st, order, ignore_max_avg_power) ==
    LET f == fix_avg_rf_power(seqs, cd, order, ignore_max_avg_power) IN
    IF f.raised THEN [ok |-> FALSE, status |-> st, sequences |-> f.sequences]
    ELSE [ok |-> TRUE, status |-> 1, sequences |-> f.sequences]

\* MultiChSeq.finalize
finalize(seqs, cd, st, order, ignore_max_avg_power) ==
    IF st # 0 THEN [ok |-> FALSE, status |-> st, sequences |-> seqs]
    ELSE
      LET f == fix_avg_rf_power(seqs, cd, order, ignore_max_avg_power) IN
      IF f.raised THEN [ok |-> FALSE, status |-> st, sequences |-> f.sequences]
      ELSE [ok |-> TRUE, status |-> 1,
            sequences |->
              IF MASTER_AWG \in DevicesOf(cd) /\ Cardinality(DevicesOf(cd)) > 1
              THEN set_slave_trigger_settings(
                       set_master_trigger_settings(f.sequences, cd), cd)
              ELSE f.sequences]

\* Sequence.precompile_samples_waveform(coherent_offset): the coherent
\* offset each SequenceStep is synthesized at; an alias is skipped before
\* idx is advanced
RECURSIVE Sequence_precompile_from(_, _, _)
Sequence_precompile_from(rows, i, idx) ==
    IF i > Len(rows) THEN << >>
    ELSE IF ~rows[i].own THEN Sequence_precompile_from(rows, i + 1, idx)
    ELSE <<[oid |-> rows[i].oid, coherent_offset |-> idx]>>
         \o Sequence_precompile_from(rows, i + 1,
                idx + SequenceStep_length_smpl(rows, rows[i]) * rows[i].loop_count)

\* MultiChSeq.precompile_samples_waveform
precompile_samples_waveform(seqs, cd, st) ==
    IF st # 1 THEN [ok |-> FALSE, status |-> st, precomp |-> [c \in cd |-> << >>]]
    ELSE [ok |-> TRUE, status |-> 2,
          precomp |-> [c \in cd |-> Sequence_precompile_from(seqs[c], 1, 0)]]

----------------------------------------------------------------------------
(* Sequence.sequence_table_data_block (elements.py).  A Sequence is        *)
(* [advance_mode, loop_count, rows].  A 32-bit word whose top bit is set   *)
(* is held as its two's complement value (2 ** 32 - 1 as -1); \div and %   *)
(* round down, so its bytes come out as the bytes of the unsigned word.    *)

\* advance_map
advance_map(mode) ==
    CASE mode = "AUTO" -> 0 [] mode = "COND" -> 1 [] mode = "REP" -> 2 [] mode = "SING" -> 3

\* struct.pack('I', x): four bytes, least significant first
Pack32(x) ==
    << x % 256, (x \div 256) % 256, (x \div 65536) % 256, (x \div 16777216) % 256 >>

\* control with 2 ** 28 added for every row
control_word_every_row_first(i, n, sequence_advance_mode, step) ==
    2 ^ 28
    + (IF i = n - 1 THEN 2 ^ 30 ELSE 0)
    + (IF step.marker_enable THEN 2 ^ 24 ELSE 0)
    + advance_map(sequence_advance_mode) * 2 ^ 20
    + advance_map(step.advance_mode) * 2 ^ 16

\* control of row i (from 0) of n rows
control_word(i, n, sequence_advance_mode, step) ==
    (IF i = 0 THEN 2 ^ 28 ELSE 0)
    + (IF i = n - 1 THEN 2 ^ 30 ELSE 0)
    + (IF step.marker_enable THEN 2 ^ 24 ELSE 0)
    + advance_map(sequence_advance_mode) * 2 ^ 20
    + advance_map(step.advance_mode) * 2 ^ 16

\* the 24 bytes of row i: control, the sequence's loop count, the row's
\* loop count, the segment id, the row's start and end offsets
table_record(i, seq, segment_ids) ==
    LET step == seq.rows[i + 1] IN
    Pack32(control_word(i, Len(seq.rows), seq.advance_mode, step))
    \o Pack32(seq.loop_count)
    \o Pack32(step.loop_count)
    \o Pack32(segment_ids[i + 1])
    \o Pack32(step.segment_start_offset)
    \o Pack32(step.segment_end_offset)

\* the encoder writing sequence_id_offset + i + 1 to row i
sequence_table_data_block_one_based(seq, segment_ids, sequence_id_offset) ==
    IF Len(seq.rows) # Len(segment_ids)
    THEN [ok |-> FALSE, offset |-> sequence_id_offset, records |-> << >>, rows |-> seq.rows]
    ELSE [ok |-> TRUE, offset |-> sequence_id_offset,
          records |-> [i \in DOMAIN seq.rows |-> table_record(i - 1, seq, segment_ids)],
          rows |-> [i \in DOMAIN seq.rows |->
                       [seq.rows[i] EXCEPT !.sequence_id = sequence_id_offset + i]]]

\* Sequence.sequence_table_data_block: the command (its row offset and its
\* records) and the rows with their _sequence_id set
sequence_table_data_block(seq, segment_ids, sequence_id_offset) ==
    IF Len(seq.rows) # Len(segment_ids)
    THEN [ok |-> FALSE, offset |-> sequence_id_offset, records |-> << >>, rows |-> seq.rows]
    ELSE [ok |-> TRUE, offset |-> sequence_id_offset,
          records |-> [i \in DOMAIN seq.rows |-> table_record(i - 1, seq, segment_ids)],
          rows |-> [i \in DOMAIN seq.rows |->
                       [seq.rows[i] EXCEPT !.sequence_id = sequence_id_offset + i - 1]]]

----------------------------------------------------------------------------
(* The memory of one channel of a device (hardware.py): the sequencer      *)
(* table, a sequence of 24-byte records without the reset records at its   *)
(* end, and the waveform memory, a set of segments.                        *)

\* the record SequencerTable.reset writes: control 2147483648, then 1, 0,
\* 0, 640, 0
ResetRecord ==
    <<0, 0, 0, 128>> \o Pack32(1) \o Pack32(0) \o Pack32(0) \o Pack32(640) \o Pack32(0)

\* bit k of a packed 32-bit word
BitOf(bytes, k) == (bytes[(k \div 8) + 1] \div 2 ^ (k % 8)) % 2

ControlOf(record) == SubSeq(record, 1, 4)

IsReset(record) == ControlOf(record) = <<0, 0, 0, 128>>

\* a channel after clear_memories; fault: the device answers the next
\* command with an error (the VISA call raises or SYST:ERR? reports one)
EmptyChannel ==
    [table |-> << >>, segments |-> {}, output |-> 0, fault |-> FALSE, selected_sequence |-> 0]

RECURSIVE TrimResets(_)
TrimResets(table) ==
    IF table # << >> /\ IsReset(table[Len(table)])
    THEN TrimResets(SubSeq(table, 1, Len(table) - 1))
    ELSE table

\* SequencerTable.data (getter) on a table of fewer than 128 rows: the
\* first block read holds a reset record, so the records of that block
\* that are not reset records are returned; raised when the last of them
\* has no end-of-sequence bit
SequencerTable_data(table) ==
    LET data == SelectSeq(table, LAMBDA record : ~IsReset(record)) IN
    [raised |-> data # << >> /\ BitOf(ControlOf(data[Len(data)]), 30) = 0,
     data |-> data]

\* SequencerTable.data (setter): STAB:DATA offset, records
SequencerTable_write(table, offset, records) ==
    TrimResets([i \in 1 .. Max(Len(table), offset + Len(records)) |->
                  IF i > offset /\ i <= offset + Len(records) THEN records[i - offset]
                  ELSE IF i <= Len(table) THEN table[i]
                  ELSE ResetRecord])

\* SequencerTable.control_values: the indices (from 0) of the records of
\* data whose control has bit position set, ascending
RECURSIVE control_values_from(_, _, _)
control_values_from(data, position, i) ==
    IF i > Len(data) THEN << >>
    ELSE (IF BitOf(ControlOf(data[i]), position) = 1 THEN <<i - 1>> ELSE << >>)
         \o control_values_from(data, position, i + 1)

\* SequencerTable.catalogue: <<start row, length>> of each sequence
SequencerTable_catalogue(data) ==
    LET ssid == control_values_from(data, 28, 1)
        seid == control_values_from(data, 30, 1)
    IN [j \in 1 .. Min(Len(ssid), Len(seid)) |-> <<ssid[j], seid[j] - ssid[j] + 1>>]

\* the number of sequences in a channel's sequencer table
StoredSequences(chan) == Len(control_values_from(SelectSeq(chan.table,
                                 LAMBDA record : ~IsReset(record)), 28, 1))

\* SequencerTable.reset(sequence_id, number_of_entries)
SequencerTable_reset(table, sequence_id, number_of_entries) ==
    SequencerTable_write(table, sequence_id, [i \in 1 .. number_of_entries |-> ResetRecord])

\* Segments.valid_length on a length the model holds as one integer
valid_length(length) == valid_length_wide(Wide(length))

\* the id TRAC:DEF:NEW? answers with: the lowest id not in use
NewSid(segments) ==
    CHOOSE sid \in 1 .. Cardinality(segments) + 1 :
        /\ \A g \in segments : g.sid # sid
        /\ \A t \in 1 .. sid - 1 : \E g \in segments : g.sid = t

\* the loop of Channel.write_sequence from row i on: an alias takes the
\* segment_id of the SequenceStep it reuses, a SequenceStep gets a new
\* segment with its samples and records the id
RECURSIVE write_segments_from(_, _, _, _)
write_segments_from(segments, rows, segment_ids, i) ==
    IF i > Len(rows)
    THEN [raised |-> FALSE, segments |-> segments, rows |-> rows, segment_ids |-> segment_ids]
    ELSE IF ~rows[i].own
    THEN IF Resolve(rows, rows[i]).segment_id = 0
         THEN [raised |-> TRUE, segments |-> segments, rows |-> rows, segment_ids |-> segment_ids]
         ELSE write_segments_from(segments, rows,
                  Append(segment_ids, Resolve(rows, rows[i]).segment_id), i + 1)
    ELSE IF ~valid_length(SequenceStep_length_smpl(rows, rows[i]))
    THEN [raised |-> TRUE, segments |-> segments, rows |-> rows, segment_ids |-> segment_ids]
    ELSE LET sid == NewSid(segments) IN
         write_segments_from(
             segments \cup {[sid |-> sid, name |-> rows[i].name, data |-> TRUE,
                             length |-> SequenceStep_length_smpl(rows, rows[i])]},
             [rows EXCEPT ![i].segment_id = sid],
             Append(segment_ids, sid), i + 1)

\* Channel.write_sequence(sequence, sample_offset=0)
write_sequence(chan, rows) ==
    The({
      IF rows = << >> \/ chan.fault \/ d.raised
      THEN [raised |-> TRUE, chan |-> chan, rows |-> rows]
      ELSE The({
        IF w.raised
        THEN [raised |-> TRUE, chan |-> [chan EXCEPT !.segments = w.segments], rows |-> w.rows]
        ELSE The({
          [raised |-> FALSE,
           chan |-> [chan EXCEPT
                       !.table = SequencerTable_write(chan.table, b.offset, b.records),
                       !.segments = w.segments],
           rows |-> b.rows]
          : b \in {sequence_table_data_block(
                       [advance_mode |-> SequenceAdvanceMode,
                        loop_count |-> SequenceLoopCount, rows |-> w.rows],
                       w.segment_ids, Len(d.data))}})
        : w \in {write_segments_from(chan.segments, rows, << >>, 1)}})
      : d \in {SequencerTable_data(chan.table)}})

\* the loop of Channel.write_sequence from row i on, as to the coherent
\* offset: a SequenceStep is synthesized at sample_offset
\* (segment_block_data), and sample_offset advances by loop_count times the
\* segment's length after every row, an alias included
RECURSIVE write_sequence_offsets_from(_, _, _)
write_sequence_offsets_from(rows, i, sample_offset) ==
    IF i > Len(rows) THEN << >>
    ELSE (IF rows[i].own THEN <<[oid |-> rows[i].oid, coherent_offset |-> sample_offset]>>
          ELSE << >>)
         \o write_sequence_offsets_from(rows, i + 1,
                sample_offset + rows[i].loop_count * SequenceStep_length_smpl(rows, rows[i]))

\* delete_sequence without the comparison of the lengths
delete_sequence_any_length(chan, rows, run) ==
    The({
      IF \/ chan.fault \/ d.raised \/ rows = << >> \/ run
         \/ \E i \in DOMAIN rows : rows[i].own /\ rows[i].segment_id \notin {g.sid : g \in chan.segments}
         \/ ~\E j \in DOMAIN SequencerTable_catalogue(d.data) :
                SequencerTable_catalogue(d.data)[j][1] = rows[1].sequence_id
      THEN [raised |-> TRUE, chan |-> chan]
      ELSE [raised |-> FALSE,
            chan |-> [chan EXCEPT
                        !.table = SequencerTable_reset(chan.table, rows[1].sequence_id, Len(rows)),
                        !.segments = {g \in chan.segments :
                                        \A i \in DOMAIN rows :
                                            rows[i].own => rows[i].segment_id # g.sid}]]
      : d \in {SequencerTable_data(chan.table)}})

\* Channel.delete_sequence(sequence); run is Channel.run
delete_sequence(chan, rows, run) ==
    LET d == SequencerTable_data(chan.table)
        cat == SequencerTable_catalogue(d.data)
        sids == {g.sid : g \in chan.segments}
        own == {i \in DOMAIN rows : rows[i].own}
    IN
    IF \/ chan.fault
       \/ d.raised
       \/ rows = << >>
       \/ \E i \in own : rows[i].segment_id \notin sids
       \/ ~\E j \in DOMAIN cat : cat[j][1] = rows[1].sequence_id
    THEN [raised |-> TRUE, chan |-> chan]
    ELSE
      LET sci == cat[CHOOSE j \in DOMAIN cat :
                        /\ cat[j][1] = rows[1].sequence_id
                        /\ \A k \in 1 .. j - 1 : cat[k][1] # rows[1].sequence_id]
      IN
      IF Len(rows) # sci[2] \/ run THEN [raised |-> TRUE, chan |-> chan]
      ELSE [raised |-> FALSE,
            chan |-> [chan EXCEPT
                        !.table = SequencerTable_reset(chan.table, sci[1], sci[2]),
                        !.segments = {g \in chan.segments :
                                        \A i \in own : rows[i].segment_id # g.sid}]]

----------------------------------------------------------------------------
(* Writing and deleting programs (pym8190a.py).  A program is              *)
(* [name, ch_dict, status, written, sequences].  A registry is             *)
(* [keys, progs, awgs, debug_mode, running, log]: keys are the names in    *)
(* insertion order, progs the MultiChSeq objects by name, awgs the memory  *)
(* of every channel (no handles at all on a registry constructed in debug  *)
(* mode), running the run state by device, log the device operations of    *)
(* the registry call in progress.                                          *)

\* the channels of a scope in the order ch_dict.keys() and the channel
\* dicts are iterated
ChannelsInOrder(cd, order) ==
    LET Of(dev) == (IF <<dev, 1>> \in cd THEN << <<dev, 1>> >> ELSE << >>)
                   \o (IF <<dev, 2>> \in cd THEN << <<dev, 2>> >> ELSE << >>)
    IN Of(order[1]) \o Of(order[2])

RECURSIVE write_channels_from(_, _, _, _)
write_channels_from(prog, mem, chans, i) ==
    IF i > Len(chans)
    THEN [raised |-> FALSE, prog |-> prog, awgs |-> mem, channel |-> << >>]
    ELSE IF chans[i] \notin DOMAIN mem
    THEN [raised |-> TRUE, prog |-> prog, awgs |-> mem, channel |-> chans[i]]
    ELSE The({
      The({
        IF w.raised THEN [raised |-> TRUE, prog |-> p, awgs |-> a, channel |-> chans[i]]
        ELSE write_channels_from(p, a, chans, i + 1)
        : p \in {[prog EXCEPT !.sequences[chans[i]] = w.rows]},
          a \in {[mem EXCEPT ![chans[i]] = w.chan]}})
      : w \in {write_sequence(mem[chans[i]], prog.sequences[chans[i]])}})

\* write_to_awg_memory with the written flag set in a finally clause
write_to_awg_memory_flag_in_finally(prog, mem, order) ==
    The({
      [raised |-> w.raised, awgs |-> w.awgs, channel |-> w.channel,
       prog |-> [w.prog EXCEPT !.written = TRUE]]
      : w \in {write_channels_from(prog, mem, ChannelsInOrder(prog.ch_dict, order), 1)}})

\* MultiChSeq.write_to_awg_memory(), no abort flag
write_to_awg_memory(prog, mem, order) ==
    IF \E c \in prog.ch_dict :
          /\ HasCeiling(c)
          /\ \E w \in {check_avg_rf_power(prog.sequences[c], c)} : w.raised \/ w.n # 0
    THEN [raised |-> TRUE, prog |-> prog, awgs |-> mem, channel |-> << >>]
    ELSE The({
      [raised |-> w.raised, awgs |-> w.awgs, channel |-> w.channel,
       prog |-> IF w.raised THEN w.prog ELSE [w.prog EXCEPT !.written = TRUE]]
      : w \in {write_channels_from(prog, mem, ChannelsInOrder(prog.ch_dict, order), 1)}})

RECURSIVE delete_channels_from(_, _, _, _, _)
delete_channels_from(prog, mem, runs, chans, i) ==
    IF i > Len(chans) THEN [raised |-> FALSE, awgs |-> mem]
    ELSE IF chans[i] \notin DOMAIN mem THEN [raised |-> TRUE, awgs |-> mem]
    ELSE The({
      IF d.raised THEN [raised |-> TRUE, awgs |-> mem]
      ELSE The({delete_channels_from(prog, a, runs, chans, i + 1)
                : a \in {[mem EXCEPT ![chans[i]] = d.chan]}})
      : d \in {delete_sequence(mem[chans[i]], prog.sequences[chans[i]],
                               runs[chans[i][1]])}})

\* MultiChSeq.delete_from_awg_memory
delete_from_awg_memory(prog, mem, runs, order) ==
    The({
      [raised |-> d.raised, awgs |-> d.awgs,
       prog |-> IF d.raised THEN prog ELSE [prog EXCEPT !.written = FALSE]]
      : d \in {delete_channels_from(prog, mem, runs,
                                    ChannelsInOrder(prog.ch_dict, order), 1)}})

\* MultiChSeqDict.delete_keys_from_awg_memory from keys[i] down to keys[1]
RECURSIVE delete_keys_from(_, _, _, _)
delete_keys_from(R, keys, i, order) ==
    IF i < 1 THEN [raised |-> FALSE, reg |-> R]
    ELSE IF ~R.progs[R.vals[keys[i]]].written THEN delete_keys_from(R, keys, i - 1, order)
    ELSE The({
      IF d.raised THEN [raised |-> TRUE, reg |-> [R EXCEPT !.awgs = d.awgs]]
      ELSE The({delete_keys_from(R1, keys, i - 1, order)
                : R1 \in {[R EXCEPT !.awgs = d.awgs, !.progs[R.vals[keys[i]]] = d.prog,
                                    !.log = Append(@, <<"delete", R.vals[keys[i]]>>)]}})
      : d \in {delete_from_awg_memory(R.progs[R.vals[keys[i]]], R.awgs, R.running, order)}})

delete_keys_from_awg_memory(R, keys, order) == delete_keys_from(R, keys, Len(keys), order)

\* the loop of MultiChSeqDict.write_keys_to_awg_memory from keys[i] on
RECURSIVE write_keys_from(_, _, _, _)
write_keys_from(R, keys, i, order) ==
    IF i > Len(keys) THEN [raised |-> FALSE, reg |-> R]
    ELSE The({
      IF w.raised
      THEN [raised |-> TRUE, reg |-> [R EXCEPT !.awgs = w.awgs, !.progs[R.vals[keys[i]]] = w.prog]]
      ELSE The({write_keys_from(R1, keys, i + 1, order)
                : R1 \in {[R EXCEPT !.awgs = w.awgs, !.progs[R.vals[keys[i]]] = w.prog,
                                    !.log = Append(@, <<"write", R.vals[keys[i]]>>)]}})
      : w \in {write_to_awg_memory(R.progs[R.vals[keys[i]]], R.awgs, order)}})

\* MultiChSeqDict.write_keys_to_awg_memory
write_keys_to_awg_memory(R, keys, order) ==
    IF R.debug_mode THEN [raised |-> FALSE, reg |-> R]
    ELSE write_keys_from(R, keys, 1, order)

\* MultiChSeqDict.rewrite_keys_awg_memory
rewrite_keys_awg_memory(R, keys, order) ==
    The({IF d.raised THEN d ELSE write_keys_to_awg_memory(d.reg, keys, order)
         : d \in {delete_keys_from_awg_memory(R, keys, order)}})

\* self.keys().index(key), from 1
KeyIndex(keys, key) == CHOOSE i \in DOMAIN keys : keys[i] = key

\* a __delitem__ that deletes the program of key alone from the devices and
\* leaves the later programs where they are
MultiChSeqDict_delitem_only_key(R, key, order) ==
    IF key \notin Range(R.keys) THEN [raised |-> TRUE, reg |-> R]
    ELSE The({
      IF d.raised THEN d
      ELSE [raised |-> FALSE,
            reg |-> [d.reg EXCEPT
                       !.keys = RemoveAt(@, KeyIndex(R.keys, key)),
                       !.vals = [k \in DOMAIN @ \ {key} |-> @[k]]]]
      : d \in {delete_keys_from_awg_memory(R, <<key>>, order)}})

\* MultiChSeqDict.__delitem__
MultiChSeqDict_delitem(R, key, order) ==
    IF key \notin Range(R.keys) THEN [raised |-> TRUE, reg |-> R]
    ELSE The({
      The({
        IF d.raised THEN d
        ELSE The({write_keys_to_awg_memory(R1, Tail(delete_keys), order)
                  : R1 \in {[d.reg EXCEPT
                               !.keys = RemoveAt(@, didx),
                               !.vals = [k \in DOMAIN @ \ {key} |-> @[k]]]}})
        : d \in {delete_keys_from_awg_memory(R, delete_keys, order)}})
      : didx \in {KeyIndex(R.keys, key)},
        delete_keys \in {SubSeq(R.keys, KeyIndex(R.keys, key), Len(R.keys))}})

\* OrderedDict.__setitem__: a new key goes to the end
OrderedDict_setitem(R, key, value) ==
    [R EXCEPT !.keys = IF key \in Range(@) THEN @ ELSE Append(@, key),
              !.vals = (key :> value) @@ @]

\* MultiChSeqDict.__setitem__(key, value) without the deletion of the
\* program already registered under key
MultiChSeqDict_setitem_keeping_old(R, key, value, order) ==
    IF key # R.progs[value].name THEN [raised |-> TRUE, reg |-> R]
    ELSE The({
      IF d.raised \/ d.reg.progs[value].written THEN [raised |-> TRUE, reg |-> d.reg]
      ELSE The({
        The({
          IF ~f.ok THEN [raised |-> TRUE, reg |-> R1]
          ELSE IF R1.debug_mode
          THEN [raised |-> FALSE, reg |-> OrderedDict_setitem(R1, key, value)]
          ELSE The({
            IF w.raised
            THEN [raised |-> TRUE,
                  reg |-> [R1 EXCEPT !.awgs = w.awgs, !.progs[value] = w.prog]]
            ELSE [raised |-> FALSE,
                  reg |-> OrderedDict_setitem(
                              [R1 EXCEPT !.awgs = w.awgs, !.progs[value] = w.prog,
                                         !.log = Append(@, <<"write", value>>)],
                              key, value)]
            : w \in {write_to_awg_memory(R1.progs[value], R1.awgs, order)}})
          : R1 \in {[d.reg EXCEPT !.progs[value].status = f.status,
                                  !.progs[value].sequences = f.sequences]}})
        : f \in {IF d.reg.progs[value].status = 0
                 THEN finalize(d.reg.progs[value].sequences, d.reg.progs[value].ch_dict,
                               d.reg.progs[value].status, order, FALSE)
                 ELSE [ok |-> TRUE, status |-> d.reg.progs[value].status,
                       sequences |-> d.reg.progs[value].sequences]}})
      : d \in {[raised |-> FALSE, reg |-> R]}})

\* MultiChSeqDict.__setitem__(key, value); value is the identity of a
\* MultiChSeq object
MultiChSeqDict_setitem(R, key, value, order) ==
    IF key # R.progs[value].name THEN [raised |-> TRUE, reg |-> R]
    ELSE The({
      IF d.raised \/ d.reg.progs[value].written THEN [raised |-> TRUE, reg |-> d.reg]
      ELSE The({
        The({
          IF ~f.ok THEN [raised |-> TRUE, reg |-> R1]
          ELSE IF R1.debug_mode
          THEN [raised |-> FALSE, reg |-> OrderedDict_setitem(R1, key, value)]
          ELSE The({
            IF w.raised
            THEN [raised |-> TRUE,
                  reg |-> [R1 EXCEPT !.awgs = w.awgs, !.progs[value] = w.prog]]
            ELSE [raised |-> FALSE,
                  reg |-> OrderedDict_setitem(
                              [R1 EXCEPT !.awgs = w.awgs, !.progs[value] = w.prog,
                                         !.log = Append(@, <<"write", value>>)],
                              key, value)]
            : w \in {write_to_awg_memory(R1.progs[value], R1.awgs, order)}})
          : R1 \in {[d.reg EXCEPT !.progs[value].status = f.status,
                                  !.progs[value].sequences = f.sequences]}})
        : f \in {IF d.reg.progs[value].status = 0
                 THEN finalize(d.reg.progs[value].sequences, d.reg.progs[value].ch_dict,
                               d.reg.progs[value].status, order, FALSE)
                 ELSE [ok |-> TRUE, status |-> d.reg.progs[value].status,
                       sequences |-> d.reg.progs[value].sequences]}})
      : d \in {IF key \in Range(R.keys) THEN MultiChSeqDict_delitem(R, key, order)
               ELSE [raised |-> FALSE, reg |-> R]}})

\* the debug_mode setter: on a change to True with an unwritten program the
\* programs from the first unwritten one on are rewritten
set_debug_mode(R, val, order) ==
    IF R.debug_mode = val THEN [raised |-> FALSE, reg |-> R]
    ELSE
      LET R1 == [R EXCEPT !.debug_mode = val]
          unwritten == {i \in DOMAIN R.keys : ~R.progs[R.vals[R.keys[i]]].written}
      IN
      IF val /\ unwritten # {}
      THEN LET first == CHOOSE i \in unwritten : \A j \in unwritten : i <= j IN
           rewrite_keys_awg_memory(R1, SubSeq(R.keys, first, Len(R.keys)), order)
      ELSE [raised |-> FALSE, reg |-> R1]

Devices == {"2g", "128m"}

\* MultiChSeqDict.set_wait: the program 'wait' over every channel
wait_program ==
    [name |-> "wait", ch_dict |-> CH_DICT_FULL, status |-> 1, written |-> FALSE,
     sequences |-> start_new_segment(init_sequences(CH_DICT_FULL), CH_DICT_FULL,
                                     "wait", FALSE, 1)]

\* MultiChSeqDict(debug_mode): connect_to_awgs with cleared memories unless
\* in debug mode, then set_wait; others are the programs that exist beside
\* the registry
MultiChSeqDict_init(val, others, order) ==
    MultiChSeqDict_setitem(
        [keys |-> << >>,
         vals |-> << >>,
         progs |-> others @@ ("wait" :> wait_program),
         awgs |-> IF val THEN << >> ELSE [c \in CH_DICT_FULL |-> EmptyChannel],
         debug_mode |-> val,
         running |-> [dev \in Devices |-> FALSE],
         log |-> << >>],
        "wait", "wait", order).reg

\* Channel.initialize_sequence(sequence): selected_sequence becomes the
\* _sequence_id of the first step, which it has once it has been written
initialize_sequence(chan, rows) ==
    IF chan.fault \/ rows = << >> \/ rows[1].sequence_id = NoSequenceId
    THEN [raised |-> TRUE, chan |-> chan]
    ELSE [raised |-> FALSE, chan |-> [chan EXCEPT !.selected_sequence = rows[1].sequence_id]]

\* MultiChSeq.initialize from the i-th channel of the full table on: the
\* program's own sequence on a channel of its scope, the one of
\* mcas_dict['wait'] on any other
RECURSIVE initialize_from(_, _, _, _)
initialize_from(R, prog, chans, i) ==
    IF i > Len(chans) THEN [raised |-> FALSE, reg |-> R]
    ELSE IF chans[i] \notin prog.ch_dict /\ "wait" \notin DOMAIN R.vals
    THEN [raised |-> TRUE, reg |-> R]
    ELSE IF chans[i] \notin DOMAIN R.awgs THEN [raised |-> TRUE, reg |-> R]
    ELSE The({
      IF s.raised THEN [raised |-> TRUE, reg |-> R]
      ELSE initialize_from(
             [R EXCEPT !.awgs[chans[i]] = s.chan,
                       !.log = Append(@, <<"select", chans[i], s.chan.selected_sequence>>)],
             prog, chans, i + 1)
      : s \in {initialize_sequence(
                  R.awgs[chans[i]],
                  IF chans[i] \in prog.ch_dict THEN prog.sequences[chans[i]]
                  ELSE R.progs[R.vals["wait"]].sequences[chans[i]])}})

\* send_trigger that always takes the master device
send_trigger_to_master(cd) == MASTER_AWG

\* send_trigger(awgs, ch_dict): the device that gets send_begin
send_trigger(cd) ==
    IF Cardinality(DevicesOf(cd)) = 1 THEN CHOOSE dev \in DevicesOf(cd) : TRUE ELSE MASTER_AWG

\* MultiChSeq.start_awgs: start_awgs(awgs, ch_dict, trigger) runs the
\* devices of the scope, sets the outputs, sends the trigger
start_awgs(R, cd, trigger, order) ==
    IF R.awgs = << >> THEN [raised |-> TRUE, reg |-> R]
    ELSE The({
      [raised |-> FALSE,
       reg |-> [R EXCEPT
                  !.running = [dev \in Devices |-> dev \in DevicesOf(cd) \/ @[dev]],
                  !.awgs = [c \in CH_DICT_FULL |->
                              [@[c] EXCEPT !.output = IF c \in cd THEN 1 ELSE 0]],
                  !.log = @ \o [i \in DOMAIN devs |-> <<"run", devs[i]>>]
                            \o [i \in DOMAIN chans |->
                                  <<"output", chans[i], IF chans[i] \in cd THEN 1 ELSE 0>>]
                            \o (IF trigger THEN << <<"begin", send_trigger(cd)>> >>
                                ELSE << >>)]]
      : devs \in {SelectSeq(order, LAMBDA dev : dev \in DevicesOf(cd))},
        chans \in {ChannelsInOrder(CH_DICT_FULL, order)}})

\* MultiChSeq.run(trigger)
MultiChSeq_run(R, prog, trigger, order) ==
    The({
      IF n.raised THEN n ELSE start_awgs(n.reg, prog.ch_dict, trigger, order)
      : n \in {initialize_from(R, prog, ChannelsInOrder(CH_DICT_FULL, order), 1)}})

\* MultiChSeqDict.stop_awgs
stop_awgs(R) ==
    IF R.debug_mode THEN [raised |-> FALSE, reg |-> R]
    ELSE IF R.awgs = << >> THEN [raised |-> TRUE, reg |-> R]
    ELSE [raised |-> FALSE, reg |-> [R EXCEPT !.running = [dev \in Devices |-> FALSE]]]

----------------------------------------------------------------------------
(* The specification of the encoder: a Sequence drawn from bounded sets    *)
(* and calls of sequence_table_data_block on it.                           *)

AdvanceModes == {"AUTO", "COND", "REP", "SING"}

\* the SequenceSteps and aliases a row is drawn from; an alias reuses the
\* first row
EncRowChoices(i) ==
    {[SequenceStep(i, "r", 1, adv, << >>) EXCEPT !.marker_enable = m] :
        adv \in AdvanceModes, m \in BOOLEAN}
    \cup {[SequenceStep(i, "r", 2, "AUTO", << >>) EXCEPT
             !.segment_start_offset = 64, !.segment_end_offset = 383]}
    \cup (IF i = 1 THEN {}
          ELSE {SequenceStepReuseSegment(SequenceStep(1, "r", 1, "AUTO", << >>), "r", 3)})

EncRowLists ==
    UNION {{rows \in [1 .. n -> UNION {EncRowChoices(i) : i \in 1 .. n}] :
               \A i \in 1 .. n : rows[i] \in EncRowChoices(i)} : n \in 1 .. MaxRows}

\* the lists of segment ids a caller passes for n rows: of n - 1, n and
\* n + 1 ids
SegmentIdLists(n) ==
    {[i \in 1 .. k |-> a + i] : k \in {n - 1, n, n + 1}, a \in {0, 6}}

SequenceIdOffsets == {0, 5}

EncInit ==
    /\ encSeq \in [advance_mode : AdvanceModes, loop_count : {1, 2}, rows : EncRowLists]
    /\ encArgs = [segment_ids |-> << >>, sequence_id_offset |-> 0]
    /\ encOut = [op |-> "init", ok |-> FALSE, records |-> << >>]

EncIdle ==
    /\ encSeq = [advance_mode |-> "COND", loop_count |-> 1, rows |-> << >>]
    /\ encArgs = [segment_ids |-> << >>, sequence_id_offset |-> 0]
    /\ encOut = [op |-> "none", ok |-> FALSE, records |-> << >>]

EncodeTable ==
    \E segment_ids \in SegmentIdLists(Len(encSeq.rows)),
       sequence_id_offset \in SequenceIdOffsets :
        \E r \in {sequence_table_data_block(encSeq, segment_ids, sequence_id_offset)} :
        /\ encSeq' = [encSeq EXCEPT !.rows = r.rows]
        /\ encArgs' = [segment_ids |-> segment_ids, sequence_id_offset |-> sequence_id_offset]
        /\ encOut' = [op |-> "sequence_table_data_block", ok |-> r.ok, records |-> r.records]
        /\ UNCHANGED <<dlVars, mcVars, regVars, thrVars>>

----------------------------------------------------------------------------
(* The specification of one MultiChSeq and its caller.                     *)

SegmentNames == {"A"}
LoopCounts == {1, 2}
UserLengths == {64, 384}
UserStepName == "s"

AnyChannel(cd) == CHOOSE c \in cd : \A d \in cd : TRUE

\* rows started by the caller, steps added by the caller (on one channel;
\* every call treats all channels alike)
UserSegments(seqs, cd) ==
    Cardinality({i \in DOMAIN seqs[AnyChannel(cd)] :
                    seqs[AnyChannel(cd)][i].name \in SegmentNames})

UserSteps(seqs, cd) ==
    LET rows == seqs[AnyChannel(cd)] IN
    SumSeq([i \in DOMAIN rows |->
              Cardinality({j \in DOMAIN rows[i].steps :
                              rows[i].steps[j].name = UserStepName})])

\* the registry the program is registered in: constructed outside debug
\* mode, holding 'wait'
McInit ==
    /\ ch_dict \in ChDicts
    /\ valid_ch_dict(ch_dict)
    /\ cfgOrder \in ConfigOrders
    /\ status = 0
    /\ sequences = init_sequences(ch_dict)
    /\ precomp = [c \in ch_dict |-> << >>]
    /\ written = FALSE
    /\ call = [op |-> "init", ok |-> TRUE]
    /\ \E R \in {MultiChSeqDict_init(FALSE, << >>, cfgOrder)} :
       /\ reg = R.keys
       /\ vals = R.vals
       /\ progs = R.progs
       /\ debug_mode = R.debug_mode
       /\ awgs = R.awgs
       /\ running = R.running
       /\ log = << >>

McIdleFields ==
    /\ ch_dict = {}
    /\ status = 0
    /\ sequences = << >>
    /\ precomp = << >>
    /\ written = FALSE

McIdle ==
    /\ McIdleFields
    /\ cfgOrder = << >>
    /\ call = [op |-> "none", ok |-> TRUE]

StartNewSegment ==
    \E name \in SegmentNames, reuse_segment \in BOOLEAN, loop_count \in LoopCounts :
        /\ UserSegments(sequences, ch_dict) < MaxSegments
        /\ sequences' = start_new_segment(sequences, ch_dict, name, reuse_segment, loop_count)
        /\ call' = [op |-> "start_new_segment", ok |-> TRUE]
        /\ UNCHANGED <<ch_dict, cfgOrder, status, precomp, written>>
        /\ UNCHANGED <<dlVars, encVars, regVars, thrVars>>

AddStep ==
    \E c \in ch_dict, type \in {"wait", "sine"}, len \in UserLengths :
        \E r \in {add_step(sequences, ch_dict, status,
                            IF type = "sine" THEN Pd(c, "sine", 1) ELSE EmptyPd,
                            UserStepName, len)} :
        /\ r.ok => UserSteps(sequences, ch_dict) < MaxSteps
        /\ sequences' = r.sequences
        /\ call' = [op |-> "add_step", ok |-> r.ok]
        /\ UNCHANGED <<ch_dict, cfgOrder, status, precomp, written>>
        /\ UNCHANGED <<dlVars, encVars, regVars, thrVars>>

Finalize ==
    \E ignore_max_avg_power \in BOOLEAN :
        \E r \in {finalize(sequences, ch_dict, status, cfgOrder, ignore_max_avg_power)} :
        /\ sequences' = r.sequences
        /\ status' = r.status
        /\ call' = [op |-> "finalize", ok |-> r.ok, ignore |-> ignore_max_avg_power]
        /\ UNCHANGED <<ch_dict, cfgOrder, precomp, written>>
        /\ UNCHANGED <<dlVars, encVars, regVars, thrVars>>

Precompile ==
    \E r \in {precompile_samples_waveform(sequences, ch_dict, status)} :
    /\ status' = r.status
    /\ precomp' = IF r.ok THEN r.precomp ELSE precomp
    /\ call' = [op |-> "precompile", ok |-> r.ok]
    /\ UNCHANGED <<ch_dict, cfgOrder, sequences, written>>
    /\ UNCHANGED <<dlVars, encVars, regVars, thrVars>>

\* the name of the program under construction
McasName == "mcas"

\* the registry as the handlers take it, the log empty at the start of a call
RegState(objects) ==
    [keys |-> reg, vals |-> vals, progs |-> objects, awgs |-> awgs, debug_mode |-> debug_mode,
     running |-> running, log |-> << >>]

\* mcas_dict[name] = mcas for the program under construction
Register ==
    LET mcas == [name |-> McasName, ch_dict |-> ch_dict, status |-> status,
                 written |-> written, sequences |-> sequences]
    IN
    \E r \in {MultiChSeqDict_setitem(RegState(progs @@ (McasName :> mcas)),
                                     McasName, McasName, cfgOrder)} :
        /\ reg' = r.reg.keys
        /\ vals' = r.reg.vals
        /\ progs' = [k \in DOMAIN progs |-> r.reg.progs[k]]
        /\ awgs' = r.reg.awgs
        /\ log' = r.reg.log
        /\ status' = r.reg.progs[McasName].status
        /\ sequences' = r.reg.progs[McasName].sequences
        /\ written' = r.reg.progs[McasName].written
        /\ call' = [op |-> "register", ok |-> ~r.raised]
        /\ UNCHANGED <<ch_dict, cfgOrder, precomp, debug_mode, running>>
        /\ UNCHANGED <<dlVars, encVars, thrVars>>

RegIdle ==
    /\ reg = << >>
    /\ vals = << >>
    /\ progs = << >>
    /\ debug_mode = FALSE
    /\ awgs = << >>
    /\ running = << >>
    /\ log = << >>

Init == McInit /\ DlIdle /\ EncIdle /\ ThrIdle

Next == StartNewSegment \/ AddStep \/ Finalize \/ Precompile \/ Register

Spec == Init /\ [][Next]_vars

----------------------------------------------------------------------------
(* The specification of the registry: a MultiChSeqDict, the programs that  *)
(* exist beside it, and the devices.                                       *)

\* a program one segment of which holds a wait step of BLM, not finalized
OneSegmentProgram(name, cd, loop_count) ==
    [name |-> name, ch_dict |-> cd, status |-> 0, written |-> FALSE,
     sequences |->
        add_step(start_new_segment(init_sequences(cd), cd, "A", FALSE, loop_count),
                 cd, 0, EmptyPd, UserStepName, BLM).sequences]

\* the MultiChSeq objects the caller has built, as <<identity, object>>;
\* a2 is a second object named 'a'
AllPrograms ==
    << <<"a", OneSegmentProgram("a", {<<"128m", 1>>, <<"128m", 2>>}, 1)>>,
       <<"a2", OneSegmentProgram("a", {<<"2g", 1>>, <<"128m", 1>>}, 1)>>,
       <<"b", OneSegmentProgram("b", {<<"128m", 1>>}, 2)>>,
       <<"d", OneSegmentProgram("d", {<<"2g", 2>>}, 2)>>,
       <<"e", OneSegmentProgram("e", {<<"128m", 2>>}, 1)>> >>

ProgramIds == {AllPrograms[i][1] : i \in 1 .. Min(MaxPrograms, Len(AllPrograms))}

ProgramNames == {AllPrograms[i][2].name : i \in 1 .. Min(MaxPrograms, Len(AllPrograms))}

Programs ==
    [oid \in ProgramIds |->
        AllPrograms[CHOOSE i \in DOMAIN AllPrograms : AllPrograms[i][1] = oid][2]]

RegAssign(R) ==
    /\ reg' = R.keys
    /\ vals' = R.vals
    /\ progs' = R.progs
    /\ awgs' = R.awgs
    /\ debug_mode' = R.debug_mode
    /\ running' = R.running
    /\ log' = R.log

RegInit ==
    /\ McIdleFields
    /\ cfgOrder \in ConfigOrders
    /\ call = [op |-> "init", ok |-> TRUE]
    /\ \E val \in BOOLEAN :
          \E R \in {MultiChSeqDict_init(val, Programs, cfgOrder)} :
          /\ reg = R.keys
          /\ vals = R.vals
          /\ progs = R.progs
          /\ awgs = R.awgs
          /\ debug_mode = R.debug_mode
          /\ running = R.running
          /\ log = R.log

RegUnchanged == UNCHANGED <<dlVars, encVars, thrVars, ch_dict, cfgOrder, status, sequences, precomp, written>>

\* mcas_dict[key] = the program named key
RegisterProgram ==
    \E key \in ProgramNames \cup {"wait"}, value \in ProgramIds :
        \E r \in {MultiChSeqDict_setitem(RegState(progs), key, value, cfgOrder)} :
            /\ RegAssign(r.reg)
            /\ call' = [op |-> "setitem", key |-> key, value |-> value, ok |-> ~r.raised]
            /\ RegUnchanged

\* del mcas_dict[key]
DeleteProgram ==
    \E key \in ProgramNames \cup {"wait"} :
        \E r \in {MultiChSeqDict_delitem(RegState(progs), key, cfgOrder)} :
            /\ RegAssign(r.reg)
            /\ call' = [op |-> "delitem", key |-> key, value |-> "", ok |-> ~r.raised]
            /\ RegUnchanged

\* mcas_dict.debug_mode = val
SetDebugMode ==
    \E val \in BOOLEAN :
        \E r \in {set_debug_mode(RegState(progs), val, cfgOrder)} :
            /\ RegAssign(r.reg)
            /\ call' = [op |-> "debug_mode", key |-> "", value |-> "", ok |-> ~r.raised]
            /\ RegUnchanged

\* mcas_dict[key].start_awgs() for a registered program
StartAwgs ==
    \E key \in Range(reg) :
    \E trigger \in BOOLEAN :
        \E r \in {start_awgs(RegState(progs), progs[vals[key]].ch_dict, trigger, cfgOrder)} :
            /\ RegAssign(r.reg)
            /\ call' = [op |-> "start_awgs", key |-> key, value |-> trigger, ok |-> ~r.raised]
            /\ RegUnchanged

\* mcas_dict[key].run(trigger) for a registered program
RunProgram ==
    \E key \in Range(reg) :
    \E trigger \in BOOLEAN :
        \E r \in {MultiChSeq_run(RegState(progs), progs[vals[key]], trigger, cfgOrder)} :
            /\ RegAssign(r.reg)
            /\ call' = [op |-> "run", key |-> key, value |-> trigger, ok |-> ~r.raised]
            /\ RegUnchanged

\* mcas_dict.stop_awgs()
StopAwgs ==
    \E r \in {stop_awgs(RegState(progs))} :
        /\ RegAssign(r.reg)
        /\ call' = [op |-> "stop_awgs", key |-> "", value |-> "", ok |-> ~r.raised]
        /\ RegUnchanged

RegSpecInit == RegInit /\ DlIdle /\ EncIdle /\ ThrIdle
RegNext ==
    RegisterProgram \/ DeleteProgram \/ SetDebugMode \/ StartAwgs \/ StopAwgs \/ RunProgram
RegSpec == RegSpecInit /\ [][RegNext]_vars

----------------------------------------------------------------------------
(* The specification of one write_to_awg_memory on devices of which some   *)
(* channels answer with an error.                                          *)

\* the scopes of the programs written
WrScopes ==
    { {<<"2g", 1>>, <<"2g", 2>>},
      {<<"2g", 1>>, <<"128m", 1>>},
      {<<"128m", 1>>, <<"128m", 2>>},
      CH_DICT_FULL }

\* the program of one segment over the scope cd, finalized
FinalizedProgram(name, cd, order) ==
    The({[p EXCEPT !.status = f.status, !.sequences = f.sequences]
         : p \in {OneSegmentProgram(name, cd, 1)},
           f \in {finalize(OneSegmentProgram(name, cd, 1).sequences, cd, 0, order, FALSE)}})

WrObject == "p"

WrInit ==
    /\ McIdleFields
    /\ cfgOrder \in ConfigOrders
    /\ call = [op |-> "init", ok |-> TRUE, channel |-> << >>]
    /\ reg = << >>
    /\ vals = << >>
    /\ \E cd \in WrScopes : progs = (WrObject :> FinalizedProgram(WrObject, cd, cfgOrder))
    /\ debug_mode = FALSE
    /\ \E faulty \in SUBSET CH_DICT_FULL :
          awgs = [c \in CH_DICT_FULL |-> [EmptyChannel EXCEPT !.fault = c \in faulty]]
    /\ running = [dev \in Devices |-> FALSE]
    /\ log = << >>

\* mcas.write_to_awg_memory() on the program, once
WriteToAwgMemory ==
    /\ call.op = "init"
    /\ \E r \in {write_to_awg_memory(progs[WrObject], awgs, cfgOrder)} :
          /\ progs' = (WrObject :> r.prog)
          /\ awgs' = r.awgs
          /\ call' = [op |-> "write_to_awg_memory", ok |-> ~r.raised, channel |-> r.channel]
    /\ UNCHANGED <<reg, vals, debug_mode, running, log>>
    /\ RegUnchanged

WrSpecInit == WrInit /\ DlIdle /\ EncIdle /\ ThrIdle
WrNext == WriteToAwgMemory
WrSpec == WrSpecInit /\ [][WrNext]_vars

----------------------------------------------------------------------------
(* The specification of write_to_awg_memory(abort=flag) on one thread      *)
(* while another thread sets and clears the flag.  The thread tests the    *)
(* flag and writes a channel in separate steps.                            *)

MaxToggles == 3

Writer == "writer"
Other  == "other"

\* the channels of the program in the order of the two nested loops
AbChannels == ChannelsInOrder(progs[WrObject].ch_dict, cfgOrder)

\* 'break': the position of the first channel of the next device in the
\* outer loop, or the end of the outer loop
AfterBreak(chans, i) ==
    CHOOSE j \in i + 1 .. Len(chans) + 1 :
        /\ j = Len(chans) + 1 \/ chans[j][1] # chans[i][1]
        /\ \A k \in i + 1 .. j - 1 : chans[k][1] = chans[i][1]

AbInit ==
    /\ WrInit
    /\ DlIdle /\ EncIdle
    /\ abort \in BOOLEAN
    /\ handles = << >>
    /\ pc = (Writer :> [at |-> "for", i |-> 1, observed |-> FALSE])
            @@ (Other :> [toggles |-> 0])

\* 'if abort is not None and abort.is_set(): break' at the head of the body
\* of the inner loop; observed records that the flag has been seen set
AbortIsSet ==
    /\ pc[Writer].at = "for"
    /\ pc[Writer].i <= Len(AbChannels)
    /\ pc' = [pc EXCEPT ![Writer] =
                IF abort
                THEN [at |-> "for", i |-> AfterBreak(AbChannels, pc[Writer].i), observed |-> TRUE]
                ELSE [at |-> "write", i |-> pc[Writer].i, observed |-> pc[Writer].observed]]
    /\ UNCHANGED <<abort, progs, awgs, call>>
    /\ UNCHANGED abFrame

\* the try block: write_sequence of the channel, then the next channel
AbortWriteSequence ==
    /\ pc[Writer].at = "write"
    /\ \E c \in {AbChannels[pc[Writer].i]} :
       \E w \in {write_sequence(awgs[c], progs[WrObject].sequences[c])} :
          /\ awgs' = [awgs EXCEPT ![c] = w.chan]
          /\ progs' = [progs EXCEPT ![WrObject].sequences[c] = w.rows]
          /\ pc' = [pc EXCEPT ![Writer].at = IF w.raised THEN "raised" ELSE "for",
                              ![Writer].i = IF w.raised THEN @ ELSE @ + 1]
          /\ call' = IF w.raised
                     THEN [op |-> "write_to_awg_memory", ok |-> FALSE, channel |-> c]
                     ELSE call
    /\ UNCHANGED abort
    /\ UNCHANGED abFrame

\* the end of the outer loop: self.written = True
AbortWritten ==
    /\ pc[Writer].at = "for"
    /\ pc[Writer].i > Len(AbChannels)
    /\ pc' = [pc EXCEPT ![Writer].at = "done"]
    /\ progs' = [progs EXCEPT ![WrObject].written = TRUE]
    /\ call' = [op |-> "write_to_awg_memory", ok |-> TRUE, channel |-> << >>]
    /\ UNCHANGED <<abort, awgs>>
    /\ UNCHANGED abFrame

\* the other thread: abort.set()
AbortSet ==
    /\ pc[Other].toggles < MaxToggles
    /\ abort' = TRUE
    /\ pc' = [pc EXCEPT ![Other].toggles = @ + 1]
    /\ UNCHANGED <<progs, awgs, call>>
    /\ UNCHANGED abFrame

\* the other thread: abort.clear()
AbortClear ==
    /\ pc[Other].toggles < MaxToggles
    /\ abort' = FALSE
    /\ pc' = [pc EXCEPT ![Other].toggles = @ + 1]
    /\ UNCHANGED <<progs, awgs, call>>
    /\ UNCHANGED abFrame

AbNext == AbortIsSet \/ AbortWriteSequence \/ AbortWritten \/ AbortSet \/ AbortClear
AbSpec == AbInit /\ [][AbNext]_vars

----------------------------------------------------------------------------
(* The specification of Channel.write_sequence and Channel.delete_sequence *)
(* of two Sequences on one channel that may be running: a Sequence keeps   *)
(* the segment ids and sequence id of its last write when the memory they  *)
(* name has been freed or taken by the other Sequence.                     *)

MaxStored == 2

DelChannel == <<"2g", 1>>

\* a Sequence of one row and a Sequence of two rows, the second an alias
\* of the first
DelSequences ==
    ("p" :> FinalizedProgram("p", {DelChannel}, <<"2g", "128m">>))
    @@ ("q" :> The({[p EXCEPT !.sequences = start_new_segment(p.sequences, {DelChannel}, "A", TRUE, 1)]
                    : p \in {FinalizedProgram("q", {DelChannel}, <<"2g", "128m">>)}}))

DelInit ==
    /\ McIdleFields
    /\ cfgOrder = <<"2g", "128m">>
    /\ call = [op |-> "init", key |-> "", ok |-> TRUE]
    /\ reg = << >>
    /\ vals = << >>
    /\ progs = DelSequences
    /\ debug_mode = FALSE
    /\ \E f \in BOOLEAN :
          awgs = [c \in CH_DICT_FULL |-> [EmptyChannel EXCEPT !.fault = f /\ c = DelChannel]]
    /\ running = [dev \in Devices |-> FALSE]
    /\ log = << >>

\* ch.write_sequence(sequence)
DelWriteSequence ==
    /\ StoredSequences(awgs[DelChannel]) < MaxStored
    /\ \E o \in DOMAIN progs :
       \E w \in {write_sequence(awgs[DelChannel], progs[o].sequences[DelChannel])} :
          /\ awgs' = [awgs EXCEPT ![DelChannel] = w.chan]
          /\ progs' = [progs EXCEPT ![o].sequences[DelChannel] = w.rows]
          /\ call' = [op |-> "write_sequence", key |-> o, ok |-> ~w.raised]
    /\ UNCHANGED <<reg, vals, debug_mode, running, log>>
    /\ RegUnchanged

\* ch.delete_sequence(sequence)
DelDeleteSequence ==
    /\ \E o \in DOMAIN progs :
       \E d \in {delete_sequence(awgs[DelChannel], progs[o].sequences[DelChannel],
                                 running[DelChannel[1]])} :
          /\ awgs' = [awgs EXCEPT ![DelChannel] = d.chan]
          /\ call' = [op |-> "delete_sequence", key |-> o, ok |-> ~d.raised]
    /\ UNCHANGED <<reg, vals, progs, debug_mode, running, log>>
    /\ RegUnchanged

\* awg.run = True / False
DelSetRun ==
    /\ \E r \in BOOLEAN :
          /\ r # running[DelChannel[1]]
          /\ running' = [running EXCEPT ![DelChannel[1]] = r]
          /\ call' = [op |-> "run", key |-> "", ok |-> TRUE]
    /\ UNCHANGED <<reg, vals, progs, debug_mode, awgs, log>>
    /\ RegUnchanged

DelSpecInit == DelInit /\ DlIdle /\ EncIdle /\ ThrIdle
DelNext == DelWriteSequence \/ DelDeleteSequence \/ DelSetRun
DelSpec == DelSpecInit /\ [][DelNext]_vars

----------------------------------------------------------------------------
(* The specification of finalize on programs of every scope of the device  *)
(* table, single devices and both devices.                                 *)

FinScopes == ChDicts \cup WrScopes

\* a program of one or two segments with one wait step in the last one
FinInit ==
    /\ ch_dict \in FinScopes
    /\ valid_ch_dict(ch_dict)
    /\ cfgOrder \in ConfigOrders
    /\ status = 0
    /\ \E loop_count \in LoopCounts, length_smpl \in UserLengths, two \in BOOLEAN :
          sequences =
             add_step(start_new_segment(
                         IF two
                         THEN start_new_segment(init_sequences(ch_dict), ch_dict, "A", FALSE, 1)
                         ELSE init_sequences(ch_dict),
                         ch_dict, "A", TRUE, loop_count),
                      ch_dict, 0, EmptyPd, UserStepName, length_smpl).sequences
    /\ precomp = [c \in ch_dict |-> << >>]
    /\ written = FALSE
    /\ call = [op |-> "init", ok |-> TRUE]
    /\ RegIdle /\ DlIdle /\ EncIdle /\ ThrIdle

FinNext == Finalize
FinSpec == FinInit /\ [][FinNext]_vars

----------------------------------------------------------------------------
(* The specification of connect_to_awgs: the calling thread starts one     *)
(* worker per device and joins them; a worker opens its device and stores  *)
(* the handle in the shared OrderedDict.  OrderedDict.__setitem__ of       *)
(* Python 2 is Python code that a thread switch can interrupt: it reads    *)
(* the last link of the list of keys, links the new key behind it, then    *)
(* stores the value in the dict.  handles is [dict, next, last]: the keys  *)
(* of the underlying dict, the links of the list of keys from "root" on    *)
(* and the last link.  An exception in a worker ends that thread only.     *)

Caller == "caller"

\* OrderedDict.keys(): the list of keys walked from the root, at most n links
RECURSIVE OrderedDict_keys(_, _, _)
OrderedDict_keys(od, node, n) ==
    IF n = 0 \/ od.next[node] = "root" THEN << >>
    ELSE <<od.next[node]>> \o OrderedDict_keys(od, od.next[node], n - 1)

ConnInit ==
    /\ McIdleFields
    /\ cfgOrder \in ConfigOrders
    /\ call = [op |-> "init", ok |-> TRUE]
    /\ RegIdle /\ DlIdle /\ EncIdle
    /\ abort = FALSE
    /\ handles = [dict |-> {}, next |-> ("root" :> "root"), last |-> "root"]
    /\ pc = (Caller :> [at |-> "start", i |-> 1])
            @@ [name \in Devices |-> [at |-> "unstarted", last |-> "root"]]

\* tl.append(threading.Thread(target=get_awg, ...)); tl[-1].start() for the
\* next name of __CH_DICT_FULL__.keys()
ConnStartThread ==
    /\ pc[Caller].at = "start"
    /\ pc' = [pc EXCEPT
                ![Caller] = IF pc[Caller].i = Len(cfgOrder)
                            THEN [at |-> "join", i |-> 1]
                            ELSE [at |-> "start", i |-> pc[Caller].i + 1],
                ![cfgOrder[pc[Caller].i]].at = "get_awg"]
    /\ UNCHANGED <<handles, call>>
    /\ UNCHANGED connFrame

\* get_awg up to clear_memories: hardware.AWG(...) opens the VISA resource,
\* which raises when the device does not answer
WorkerGetAwg ==
    /\ \E name \in Devices, opened \in BOOLEAN :
          /\ pc[name].at = "get_awg"
          /\ pc' = [pc EXCEPT ![name].at = IF opened THEN "setitem" ELSE "raised"]
    /\ UNCHANGED <<handles, call>>
    /\ UNCHANGED connFrame

\* awgs[name] = out: 'root = self.__root; last = root[0]'
WorkerReadLast ==
    /\ \E name \in Devices :
          /\ pc[name].at = "setitem"
          /\ pc' = [pc EXCEPT ![name] = [at |-> "link", last |-> handles.last]]
    /\ UNCHANGED <<handles, call>>
    /\ UNCHANGED connFrame

\* awgs[name] = out: 'last[1] = root[0] = self.__map[key] = [last, root, key]'
WorkerLink ==
    /\ \E name \in Devices :
          /\ pc[name].at = "link"
          /\ handles' = [handles EXCEPT
                           !.next = (name :> "root") @@ (pc[name].last :> name) @@ @,
                           !.last = name]
          /\ pc' = [pc EXCEPT ![name].at = "dict_setitem"]
    /\ UNCHANGED call
    /\ UNCHANGED connFrame

\* awgs[name] = out: 'return dict_setitem(self, key, value)'; the worker ends
WorkerDictSetitem ==
    /\ \E name \in Devices :
          /\ pc[name].at = "dict_setitem"
          /\ handles' = [handles EXCEPT !.dict = @ \cup {name}]
          /\ pc' = [pc EXCEPT ![name].at = "done"]
    /\ UNCHANGED call
    /\ UNCHANGED connFrame

\* 'for t in tl: t.join()': join returns once the thread has ended, by
\* return or by an exception; after the last join connect_to_awgs returns
ConnJoin ==
    /\ pc[Caller].at = "join"
    /\ pc[cfgOrder[pc[Caller].i]].at \in {"done", "raised"}
    /\ pc' = [pc EXCEPT
                ![Caller] = IF pc[Caller].i = Len(cfgOrder)
                            THEN [at |-> "returned", i |-> 1]
                            ELSE [at |-> "join", i |-> pc[Caller].i + 1]]
    /\ call' = IF pc[Caller].i = Len(cfgOrder)
               THEN [op |-> "connect_to_awgs", ok |-> TRUE]
               ELSE call
    /\ UNCHANGED handles
    /\ UNCHANGED connFrame

ConnNext ==
    \/ ConnStartThread \/ WorkerGetAwg \/ WorkerReadLast \/ WorkerLink
    \/ WorkerDictSetitem \/ ConnJoin
ConnSpec == ConnInit /\ [][ConnNext]_vars

----------------------------------------------------------------------------
(* The specification of the amplitudes of the WaveSteps of one segment:    *)
(* WaveSteps of type sine are constructed and inserted, their amplitudes   *)
(* assigned and read.  Amplitudes are held in tenths; a WaveStep is        *)
(* [frequencies, amplitudes], the number of its frequencies and the array  *)
(* it was given.                                                           *)

\* 1.0 in tenths
AmplitudeOne == 10

\* the arrays of amplitudes a caller gives
AmplitudeInputs == {<<0>>, <<5>>, <<6>>, <<10>>, <<11>>, <<5, 5>>, <<5, 6>>}
FrequencyCounts == {1, 2}

\* WaveStep.amplitudes (setter): the array is stored as it is given
WaveStep_set_amplitudes(step, val) == [step EXCEPT !.amplitudes = val]

\* WaveStep.amplitudes (getter): one amplitude is broadcast over the
\* frequencies; raised when the sum is above 1.0 (10 eps is less than a
\* tenth)
WaveStep_amplitudes(step) ==
    The({[raised |-> SumSeq(amps) > AmplitudeOne, amps |-> amps]
         : amps \in {IF Len(step.amplitudes) = 1
                     THEN [i \in 1 .. step.frequencies |-> step.amplitudes[1]]
                     ELSE step.amplitudes}})

\* WaveStep(type='sine', frequencies=..., amplitudes=val): __init__ sets the
\* frequencies, then the amplitudes through the setter
WaveStep_init(frequencies, val) ==
    WaveStep_set_amplitudes([frequencies |-> frequencies, amplitudes |-> <<0>>], val)

AmpInit ==
    /\ dl = << >>
    /\ dlOp = [op |-> "init", ok |-> TRUE, i |-> 0]
    /\ EncIdle /\ McIdle /\ RegIdle /\ ThrIdle

\* data_list.insert(len, WaveStep(type='sine', frequencies=..., amplitudes=val))
AmpInsert ==
    /\ Len(dl) < MaxListLen
    /\ \E frequencies \in FrequencyCounts, val \in AmplitudeInputs :
          dl' = DataList_insert(dl, Len(dl), WaveStep_init(frequencies, val))
    /\ dlOp' = [op |-> "insert", ok |-> TRUE, i |-> Len(dl)]
    /\ UNCHANGED <<encVars, mcVars, regVars, thrVars>>

\* data_list[i].amplitudes = val
AmpAssign ==
    /\ \E i \in DOMAIN dl, val \in AmplitudeInputs :
          /\ dl' = [dl EXCEPT ![i] = WaveStep_set_amplitudes(@, val)]
          /\ dlOp' = [op |-> "assign", ok |-> TRUE, i |-> i - 1]
    /\ UNCHANGED <<encVars, mcVars, regVars, thrVars>>

\* data_list[i].amplitudes, as the synthesis of the samples reads it
AmpRead ==
    /\ \E i \in DOMAIN dl :
          dlOp' = [op |-> "read", ok |-> ~WaveStep_amplitudes(dl[i]).raised, i |-> i - 1]
    /\ UNCHANGED dl
    /\ UNCHANGED <<encVars, mcVars, regVars, thrVars>>

AmpNext == AmpInsert \/ AmpAssign \/ AmpRead
AmpSpec == AmpInit /\ [][AmpNext]_vars

----------------------------------------------------------------------------
(* The specification of add_step with lengths of single channels: a        *)
(* channel's pd names a length_mus of its own, or a robust step whose      *)
(* length is the one of its WaveFile.                                      *)

\* the lengths given for a channel, in samples
ChannelLengths == {383, 384, 385, 386}

\* what pd holds for one channel
PdEntries ==
    {[type |-> "robust", amplitude |-> 0, wave_file |-> l] : l \in ChannelLengths}
    \cup {[type |-> "wait", amplitude |-> 0, length_smpl |-> l] : l \in {385, 386}}

\* a program of one open segment
StepInit ==
    /\ ch_dict \in ChDicts
    /\ valid_ch_dict(ch_dict)
    /\ cfgOrder \in ConfigOrders
    /\ status = 0
    /\ sequences = start_new_segment(init_sequences(ch_dict), ch_dict, "A", FALSE, 1)
    /\ precomp = [c \in ch_dict |-> << >>]
    /\ written = FALSE
    /\ call = [op |-> "init", ok |-> TRUE, pd |-> EmptyPd, length_smpl |-> 0]
    /\ RegIdle /\ DlIdle /\ EncIdle /\ ThrIdle

\* mcas.add_step(pd=pd, length_mus=...)
AddStepPd ==
    /\ UserSteps(sequences, ch_dict) < MaxSteps
    /\ \E chans \in SUBSET ch_dict, length_smpl \in {384, 385} :
       \E pd \in [chans -> PdEntries] :
       \E r \in {add_step(sequences, ch_dict, status, pd, UserStepName, length_smpl)} :
          /\ sequences' = r.sequences
          /\ call' = [op |-> "add_step", ok |-> r.ok, pd |-> pd, length_smpl |-> length_smpl]
    /\ UNCHANGED <<ch_dict, cfgOrder, status, precomp, written>>
    /\ UNCHANGED <<dlVars, encVars, regVars, thrVars>>

StepNext == AddStepPd
StepSpec == StepInit /\ [][StepNext]_vars

----------------------------------------------------------------------------
(* The specification of the length conversions (elements.py).  A duration, *)
(* the float length_mus in the source, is held as the exact number         *)
(* length_mus * __SAMPLE_FREQUENCY__ in two parts: smpl whole sample       *)
(* periods and frac millionths of a sample period, 0 <= frac < 10^6.       *)

\* one sample period in millionths
SamplePeriod == 1000000

\* 1 / __SAMPLE_DURATION_TOLERANCE__ in 1/mus: the tolerance is
\* 1e-2 / 12e3 = 1 / 1200000, handed to np.allclose as rtol
RtolInverse == 1200000

\* the atol np.allclose takes when none is given, 1e-8 mus, in millionths
\* of a sample period (1e-8 * 12e3 * 10^6)
AllcloseAtol == 120

\* the greatest common divisor of RtolInverse and SamplePeriod, by which
\* both sides of the comparison are reduced
CommonFactor == 200000

Abs(x) == IF x < 0 THEN -x ELSE x

\* np.around(length_mus * __SAMPLE_FREQUENCY__): the nearest whole number
\* of samples, the even one of two that are equally near
around(d) ==
    IF 2 * d.frac < SamplePeriod THEN d.smpl
    ELSE IF 2 * d.frac > SamplePeriod THEN d.smpl + 1
    ELSE IF d.smpl % 2 = 0 THEN d.smpl ELSE d.smpl + 1

\* |length_mus - round_length_mus_full_sample(length_mus)| in millionths of
\* a sample period
RoundingDistance(d) == Abs((d.smpl - around(d)) * SamplePeriod + d.frac)

\* valid_length_mus: np.allclose(a, b, rtol) is |a - b| <= atol + rtol * |b|
\* with b the rounded duration; rtol * |b| is b / RtolInverse mus, that is
\* around(d) * SamplePeriod / RtolInverse millionths of a sample period.
\* TRUE when no exception is raised.
valid_length_mus(d) ==
    (RtolInverse \div CommonFactor) * RoundingDistance(d)
       <= (RtolInverse \div CommonFactor) * AllcloseAtol
          + (SamplePeriod \div CommonFactor) * Abs(around(d))

\* length_mus2length_smpl
length_mus2length_smpl(d) ==
    IF valid_length_mus(d)
    THEN [raised |-> FALSE, length_smpl |-> around(d)]
    ELSE [raised |-> TRUE, length_smpl |-> 0]

\* length_smpl2length_mus: a whole number of samples passes
\* valid_length_smpl
length_smpl2length_mus(n) == [smpl |-> n, frac |-> 0]

\* the sample counts near which durations are drawn, and how far off
SampleCounts == {0, 1, 2, 5, 320, 12000, 100000, 600000, 700000}
SampleOffsets == {-500000, -400000, -10001, -10000, -5000, -1000, -121, -120, 0,
                  120, 121, 125, 1000, 5000, 10000, 10001, 400000, 500000}
Durations ==
    {[smpl |-> n, frac |-> o] : n \in SampleCounts, o \in {o \in SampleOffsets : o >= 0}}
    \cup {[smpl |-> n - 1, frac |-> SamplePeriod + o]
          : n \in SampleCounts \ {0}, o \in {o \in SampleOffsets : o < 0}}

LenInit ==
    /\ McIdleFields
    /\ cfgOrder = << >>
    /\ \E d \in Durations :
          call = [op |-> "init", ok |-> TRUE, length_mus |-> d, length_smpl |-> 0]
    /\ RegIdle /\ DlIdle /\ EncIdle /\ ThrIdle

\* length_mus2length_smpl(length_mus)
LengthMus2LengthSmpl ==
    /\ call.op = "init"
    /\ \E r \in {length_mus2length_smpl(call.length_mus)} :
          call' = [op |-> "length_mus2length_smpl", ok |-> ~r.raised,
                   length_mus |-> call.length_mus, length_smpl |-> r.length_smpl]
    /\ UNCHANGED <<ch_dict, cfgOrder, status, sequences, precomp, written>>
    /\ UNCHANGED <<dlVars, encVars, regVars, thrVars>>

LenNext == LengthMus2LengthSmpl
LenSpec == LenInit /\ [][LenNext]_vars

----------------------------------------------------------------------------
(* The specification of one Sequence built with the data model itself      *)
(* (elements.py): SequenceSteps and aliases are appended to its data_list, *)
(* loop counts are assigned.  loop_count is an int in [0, 2 ** 32 - 1] on  *)
(* a SequenceStep, an alias and a Sequence alike (BaseLoopAdvance).        *)

\* the loop counts a caller assigns
SeqLoopCounts == {0, 1, 2, 3}

\* the WaveStep lists a SequenceStep is constructed with
SeqStepLists ==
    {<< >>,
     <<WaveStep("s", "sine", 384, 1, FALSE)>>,
     <<WaveStep("s", "sine", 64, 1, FALSE), WaitStep("w", 320)>>}

\* Sequence.normalized_avg_sine_power (BaseDataList) as the fraction n / d:
\* the sum of the terms over self.repeated_length_mus, which is the
\* length times the loop count of the Sequence
Sequence_normalized_avg_sine_power(seq) ==
    [n |-> SumSeq([i \in DOMAIN seq.rows |-> PowerTerm(seq.rows, seq.rows[i])]),
     d |-> LoopScale(seq.rows) * sequence_length_smpl(seq.rows) * seq.loop_count]

\* Sequence(name)
SeqInit ==
    /\ encSeq = [advance_mode |-> SequenceAdvanceMode, loop_count |-> SequenceLoopCount,
                 rows |-> << >>]
    /\ encArgs = [segment_ids |-> << >>, sequence_id_offset |-> 0]
    /\ encOut = [op |-> "init", ok |-> TRUE, records |-> << >>]
    /\ DlIdle /\ McIdle /\ RegIdle /\ ThrIdle

\* seq.data_list.append(SequenceStep(loop_count=..., data_list=[...]))
SeqAppendSegment ==
    /\ Len(encSeq.rows) < MaxRows
    /\ \E loop_count \in SeqLoopCounts, steps \in SeqStepLists :
          encSeq' = [encSeq EXCEPT !.rows =
                        Append(@, SequenceStep(NewOid(@), "A", loop_count, "AUTO", steps))]
    /\ encOut' = [encOut EXCEPT !.op = "append"]
    /\ UNCHANGED encArgs
    /\ UNCHANGED <<dlVars, mcVars, regVars, thrVars>>

\* seq.data_list.append(SequenceStepReuseSegment(reused_sequence_step=
\* seq.data_list[i], loop_count=...))
SeqAppendAlias ==
    /\ Len(encSeq.rows) < MaxRows
    /\ \E i \in DOMAIN encSeq.rows, loop_count \in SeqLoopCounts :
          /\ encSeq.rows[i].own
          /\ encSeq' = [encSeq EXCEPT !.rows =
                           Append(@, SequenceStepReuseSegment(@[i], "A", loop_count))]
    /\ encOut' = [encOut EXCEPT !.op = "append_alias"]
    /\ UNCHANGED encArgs
    /\ UNCHANGED <<dlVars, mcVars, regVars, thrVars>>

\* seq.loop_count = ...
SeqSetLoopCount ==
    /\ \E loop_count \in SeqLoopCounts :
          encSeq' = [encSeq EXCEPT !.loop_count = loop_count]
    /\ encOut' = [encOut EXCEPT !.op = "loop_count"]
    /\ UNCHANGED encArgs
    /\ UNCHANGED <<dlVars, mcVars, regVars, thrVars>>

SeqNext == SeqAppendSegment \/ SeqAppendAlias \/ SeqSetLoopCount
SeqSpec == SeqInit /\ [][SeqNext]_vars

----------------------------------------------------------------------------
\* A SequenceStep and its write_segment_memory attribute (elements.py).  The
\* attribute is created by set_write_awg; in dlOp.write_segment_memory FALSE
\* stands for a step that does not have it.

\* the lists assigned to SequenceStep.data_list
FlagDataLists == {<< >>} \cup {<<v>> : v \in {64, 320}}
                     \cup {<<v, w>> : v \in {64, 320}, w \in {320, 384}}

\* DataList.__init__: extend appends the items one by one, each by
\* insert(len(self), v)
RECURSIVE DataList_extend(_, _)
DataList_extend(list, args) ==
    IF args = << >> THEN list
    ELSE DataList_extend(DataList_insert(list, Len(list) + 1, Head(args)),
                         Tail(args))

\* SequenceStep(): BaseDataList.__init__ assigns data_list = []
FlagInit ==
    /\ dl = << >>
    /\ dlOp = [op |-> "init", ok |-> TRUE, write_segment_memory |-> FALSE]
    /\ EncIdle /\ McIdle /\ RegIdle /\ ThrIdle

\* step.data_list = val: a new DataList owned by the step; every item
\* appended calls set_write_awg, an empty val appends nothing
FlagSetDataList ==
    \E val \in FlagDataLists :
        /\ dl' = DataList_extend(<< >>, val)
        /\ dlOp' = [op |-> "assign", ok |-> TRUE,
                    write_segment_memory |->
                        dlOp.write_segment_memory \/ val # << >>]
        /\ UNCHANGED <<encVars, mcVars, regVars, thrVars>>

\* step.data_list.insert(i, WaveStep(length_smpl=v)): set_write_awg
FlagInsert ==
    \E i \in 0 .. Len(dl) + 1, v \in StepLengths :
        /\ Len(dl) < MaxListLen
        /\ dl' = DataList_insert(dl, i, v)
        /\ dlOp' = [op |-> "insert", ok |-> TRUE,
                    write_segment_memory |-> TRUE]
        /\ UNCHANGED <<encVars, mcVars, regVars, thrVars>>

\* step.data_list[i] = WaveStep(length_smpl=v): set_write_awg after the
\* assignment, which raises IndexError past the end
FlagSetItem ==
    \E i \in 0 .. Len(dl), v \in StepLengths :
        \E r \in {DataList_setitem(dl, i, v)} :
        /\ dl' = r.list
        /\ dlOp' = [op |-> "set", ok |-> r.ok,
                    write_segment_memory |->
                        dlOp.write_segment_memory \/ r.ok]
        /\ UNCHANGED <<encVars, mcVars, regVars, thrVars>>

\* del step.data_list[i]: del list[i] and nothing else
FlagDelItem ==
    \E i \in 0 .. Len(dl) :
        \E r \in {DataList_delitem(dl, i)} :
        /\ dl' = r.list
        /\ dlOp' = [op |-> "del", ok |-> r.ok,
                    write_segment_memory |-> dlOp.write_segment_memory]
        /\ UNCHANGED <<encVars, mcVars, regVars, thrVars>>

FlagNext == FlagSetDataList \/ FlagInsert \/ FlagSetItem \/ FlagDelItem

FlagSpec == FlagInit /\ [][FlagNext]_vars

----------------------------------------------------------------------------
\* list_repeat (elements.py): a list whose indexing falls back to its first
\* element.  dl holds the elements, dlOp the last operation and its outcome.

\* the values appended to the list_repeat
RepeatValues == {1, 2, 42}

\* the non-negative indices read
RepeatIndices == {0, 1, 2, 3, 5, 100}

\* list_repeat.__getitem__(i), i >= 0: list.__getitem__(i); when that raises,
\* the traceback is printed unless the list has one element, the exception
\* is dropped and list.__getitem__(0) is returned, which raises IndexError
\* on an empty list
list_repeat_getitem(list, i) ==
    IF i < Len(list)
    THEN [raised |-> FALSE, value |-> list[i + 1], printed |-> FALSE]
    ELSE IF Len(list) = 0
         THEN [raised |-> TRUE, value |-> 0, printed |-> TRUE]
         ELSE [raised |-> FALSE, value |-> list[1],
               printed |-> Len(list) # 1]

\* list_repeat()
RepeatInit ==
    /\ dl = << >>
    /\ dlOp = [op |-> "init", i |-> 0, raised |-> FALSE, value |-> 0,
               printed |-> FALSE]
    /\ EncIdle /\ McIdle /\ RegIdle /\ ThrIdle

\* lr.append(v), inherited from list
RepeatAppend ==
    \E v \in RepeatValues :
        /\ Len(dl) < MaxListLen
        /\ dl' = Append(dl, v)
        /\ dlOp' = [op |-> "append", i |-> Len(dl), raised |-> FALSE,
                    value |-> v, printed |-> FALSE]
        /\ UNCHANGED <<encVars, mcVars, regVars, thrVars>>

\* lr[i]
RepeatGetItem ==
    \E i \in RepeatIndices :
        \E r \in {list_repeat_getitem(dl, i)} :
        /\ dlOp' = [op |-> "getitem", i |-> i, raised |-> r.raised,
                    value |-> r.value, printed |-> r.printed]
        /\ UNCHANGED <<dl, encVars, mcVars, regVars, thrVars>>

RepeatNext == RepeatAppend \/ RepeatGetItem

RepeatSpec == RepeatInit /\ [][RepeatNext]_vars

----------------------------------------------------------------------------
\* The registry outside debug mode under assignments and deletions only: a
\* MultiChSeqDict(debug_mode=False) whose debug_mode is never set.

RowInit == RegSpecInit /\ ~debug_mode

RowNext == RegisterProgram \/ DeleteProgram

RowSpec == RowInit /\ [][RowNext]_vars

\* one SequenceStep's DataList under insertions, replacements and removals
DlSpecInit == DlInit /\ EncIdle /\ McIdle /\ RegIdle /\ ThrIdle
DlSpec == DlSpecInit /\ [][DlNext]_vars

\* the encoder on one Sequence
EncSpecInit == EncInit /\ DlIdle /\ McIdle /\ RegIdle /\ ThrIdle
EncNext == EncodeTable
EncSpec == EncSpecInit /\ [][EncNext]_vars

----------------------------------------------------------------------------
(* Properties of the MultiChSeq lifecycle and of the power correction.     *)

\* C1: status starts at 0 and changes only from 0 to 1, by a finalize that
\* returns (called by the caller or by the registry when the program is
\* registered), and from 1 to 2, by a precompile_samples_waveform that returns;
\* finalize on a status other than 0 and precompilation on a status other
\* than 1 raise and leave status as it is.
C1_StatusLifecycle ==
    [][ /\ status \in {0, 1, 2}
        /\ status' # status =>
              \/ status = 0 /\ status' = 1 /\ call'.op = "finalize" /\ call'.ok
              \/ status = 0 /\ status' = 1 /\ call'.op = "register"
              \/ status = 1 /\ status' = 2 /\ call'.op = "precompile" /\ call'.ok
        /\ (call'.op = "finalize" /\ status # 0) => (~call'.ok /\ status' = status)
        /\ (call'.op = "precompile" /\ status # 1) => (~call'.ok /\ status' = status)
      ]_vars

\* a finalize that was refused on a precompiled program
C1_Witness == status = 2 /\ call.op = "finalize" /\ ~call.ok

\* C2: add_step on a program whose status is 1 or 2 raises and leaves the
\* Sequence of every channel as it was.
C2_AddStepRefused ==
    [][ (call'.op = "add_step" /\ status \in {1, 2})
            => (~call'.ok /\ sequences' = sequences) ]_vars

\* an add_step that was refused on a precompiled program that has steps
C2_Witness ==
    /\ status = 2
    /\ call.op = "add_step" /\ ~call.ok
    /\ \A c \in ch_dict : \E i \in DOMAIN sequences[c] : sequences[c][i].steps # << >>

\* C3: start_new_segment on a program whose status is 1 or 2 raises and
\* adds no SequenceStep and no alias to any channel.
C3_StartNewSegmentRefused ==
    [][ (call'.op = "start_new_segment" /\ status \in {1, 2})
            => (~call'.ok /\ sequences' = sequences) ]_vars

\* C4: after a finalize without ignore_max_avg_power that returned,
\* amplifier power times normalized average sine power is at most 1.1
\* times the ceiling on every channel of the scope that has a ceiling,
\* whichever order the configuration tables are iterated in.
C4_PowerWithinCeiling ==
    (call.op = "finalize" /\ call.ok /\ ~call.ignore) =>
        \A c \in ch_dict : HasCeiling(c) => ~PowerRatioAbove(sequences[c], c, 11)

\* the rows named rf_power_safety of a Sequence
SafetyRows(rows) == {i \in DOMAIN rows : rows[i].name = "rf_power_safety"}

\* the waiting times of the limited channels of the scope
WaitTimes(seqs, cd) ==
    {check_avg_rf_power(seqs[c], c) : c \in {x \in cd : HasCeiling(x)}}

\* C5: a finalize that finds the power of a limited channel above its
\* ceiling appends exactly one segment rf_power_safety to every channel,
\* holding one wait step of BLM and looping ceil(largest additional wait /
\* BLM) times; a finalize that finds no ceiling exceeded appends none.
C5_OneSafetySegment ==
    [][ (call'.op = "finalize" /\ call'.ok /\ ~call'.ignore /\ status = 0) =>
          LET w == WaitTimes(sequences, ch_dict)
              exceeded == \E x \in w : x.n > 0
          IN \A c \in ch_dict :
               LET added == SafetyRows(sequences'[c]) IN
               IF exceeded
               THEN /\ Cardinality(added) = 1
                    /\ \A i \in added :
                         /\ sequences'[c][i].own
                         /\ sequences'[c][i].steps = <<WaitStep("", BLM)>>
                         /\ sequences'[c][i].loop_count =
                              CeilDiv(FracMax(w).n, FracMax(w).d * BLM)
               ELSE added = {}
      ]_vars

----------------------------------------------------------------------------
(* Properties of the segment length and of the table encoder.              *)

\* the length is a multiple of 64 and at least 320
PaddedLength(w) == w.r = 0 /\ w.v >= MinSegmentLength \div Granularity

\* the length is at most 2 * 1024 ** 3 samples
WithinWaveformMemory(w) ==
    w.v < MaxSegmentVectors \/ (w.v = MaxSegmentVectors /\ w.r = 0)

\* C6 as stated: after any insertions, replacements and removals of
\* WaveSteps of whole-sample lengths the segment length with its
\* _missing_smpls_ step is a multiple of 64 and at least 320, and
\* Segments.valid_length always accepts it.
C6_AlwaysAccepted ==
    /\ PaddedLength(segment_length_wide(dl))
    /\ valid_length_wide(segment_length_wide(dl))

\* C6: after any insertions, replacements and removals of WaveSteps of
\* whole-sample lengths the segment length with its _missing_smpls_ step is
\* a multiple of 64 and at least 320; Segments.valid_length accepts it
\* whenever it is at most 2 * 1024 ** 3 samples.
C6_PaddedAndAcceptedWithinMemory ==
    /\ PaddedLength(segment_length_wide(dl))
    /\ WithinWaveformMemory(segment_length_wide(dl))
          => valid_length_wide(segment_length_wide(dl))

\* a removal left two or more steps whose lengths sum to less than 320 and
\* to no multiple of 64
C6_Witness ==
    /\ dlOp.op = "del" /\ dlOp.ok
    /\ Len(dl) >= 2
    /\ WideSum(dl).v < MinSegmentLength \div Granularity
    /\ WideSum(dl).r # 0

\* the advance-mode codes of the device
AdvanceCode(mode) ==
    CASE mode = "AUTO" -> 0 [] mode = "COND" -> 1 [] mode = "REP" -> 2 [] mode = "SING" -> 3

ControlBits == {16, 17, 20, 21, 24, 28, 30}

\* C8: in the control word of row i of N >= 1 rows bit 28 is set iff i is
\* the first row, bit 30 iff i is the last row, bit 24 is the row's
\* marker_enable, bits 20-21 hold the code of the sequence's advance mode,
\* bits 16-17 the code of the row's advance mode, and no other bit is set.
C8_ControlWord ==
    encOut.ok =>
        \A i \in DOMAIN encSeq.rows :
            LET control == SubSeq(encOut.records[i], 1, 4)
                N == Len(encSeq.rows)
            IN /\ BitOf(control, 28) = 1 <=> i = 1
               /\ BitOf(control, 30) = 1 <=> i = N
               /\ BitOf(control, 24) = 1 <=> encSeq.rows[i].marker_enable
               /\ BitOf(control, 20) + 2 * BitOf(control, 21)
                     = AdvanceCode(encSeq.advance_mode)
               /\ BitOf(control, 16) + 2 * BitOf(control, 17)
                     = AdvanceCode(encSeq.rows[i].advance_mode)
               /\ \A k \in (0 .. 31) \ ControlBits : BitOf(control, k) = 0

\* three rows encoded, the middle one with marker_enable off and both
\* advance codes 3
C8_Witness ==
    /\ encOut.ok
    /\ Len(encSeq.rows) = 3
    /\ encSeq.advance_mode = "SING"
    /\ encSeq.rows[2].advance_mode = "SING"
    /\ ~encSeq.rows[2].marker_enable

\* C9: a successful sequence_table_data_block(segment_ids, offset) records
\* sequence_id = offset + i on row i, on SequenceSteps and aliases alike,
\* and the record of row i carries segment_ids[i], the row's loop count and
\* offsets and the sequence's loop count; with a number of ids other than
\* the number of rows the call fails and changes no sequence_id.
C9_SequenceIds ==
    [][ encOut'.op = "sequence_table_data_block" =>
          IF Len(encSeq.rows) = Len(encArgs'.segment_ids)
          THEN /\ encOut'.ok
               /\ Len(encOut'.records) = Len(encSeq.rows)
               /\ \A i \in DOMAIN encSeq.rows :
                    LET rec == encOut'.records[i] IN
                    /\ encSeq'.rows[i].sequence_id = encArgs'.sequence_id_offset + i - 1
                    /\ SubSeq(rec, 5, 8) = Pack32(encSeq.loop_count)
                    /\ SubSeq(rec, 9, 12) = Pack32(encSeq.rows[i].loop_count)
                    /\ SubSeq(rec, 13, 16) = Pack32(encArgs'.segment_ids[i])
                    /\ SubSeq(rec, 17, 20) = Pack32(encSeq.rows[i].segment_start_offset)
                    /\ SubSeq(rec, 21, 24) = Pack32(encSeq.rows[i].segment_end_offset)
          ELSE ~encOut'.ok /\ encSeq' = encSeq
      ]_vars

\* a sequence with an alias encoded at offset 5, after which a call with
\* one id too many failed
C9_Witness ==
    /\ encOut.op = "sequence_table_data_block" /\ ~encOut.ok
    /\ Len(encArgs.segment_ids) = Len(encSeq.rows) + 1
    /\ \E i \in DOMAIN encSeq.rows : ~encSeq.rows[i].own
    /\ \A i \in DOMAIN encSeq.rows : encSeq.rows[i].sequence_id = 5 + i - 1

----------------------------------------------------------------------------
(* Properties of aliases and of the registry.                              *)

\* the record of row i of a written Sequence in the channel's table
RecordOf(chan, rows, i) == chan.table[rows[i].sequence_id + 1]

Reverse(s) == [i \in DOMAIN s |-> s[Len(s) + 1 - i]]

\* the device operations a deletion of keys[didx] owes: the written programs
\* from keys[didx] on are deleted, the last first, then (outside debug mode)
\* the programs after keys[didx] are written, the first first
DeletionLog(keys, ids, objs, didx, debug) ==
    [i \in DOMAIN Reverse(SelectSeq(SubSeq(keys, didx, Len(keys)),
                                    LAMBDA key : objs[ids[key]].written)) |->
        <<"delete", ids[Reverse(SelectSeq(SubSeq(keys, didx, Len(keys)),
                                          LAMBDA key : objs[ids[key]].written))[i]]>>]
    \o (IF debug THEN << >>
        ELSE [i \in 1 .. Len(keys) - didx |-> <<"write", ids[keys[didx + i]]>>])

\* C10: a deletion of program k that returns has removed from device memory
\* program k and every written program inserted after k, the last inserted
\* first, then removed k from the registry and written the later programs
\* in their insertion order; the programs inserted before k are neither
\* deleted nor rewritten; and outside debug mode every program that remains
\* in the registry is written afterwards.
C10_DeleteRewritesLater ==
    [][ (call'.op = "delitem" /\ call'.ok) =>
          \E didx \in DOMAIN reg :
              /\ reg[didx] = call'.key
              /\ log' = DeletionLog(reg, vals, progs, didx, debug_mode)
              /\ reg' = RemoveAt(reg, didx)
              /\ \A i \in 1 .. didx - 1 :
                    /\ vals'[reg[i]] = vals[reg[i]]
                    /\ progs'[vals[reg[i]]] = progs[vals[reg[i]]]
              /\ ~debug_mode => \A i \in DOMAIN reg' : progs'[vals'[reg'[i]]].written
      ]_vars

\* the position of an entry in a log, 0 when it is not there
LogIndex(entries, entry) ==
    IF \E i \in DOMAIN entries : entries[i] = entry
    THEN CHOOSE i \in DOMAIN entries : entries[i] = entry
    ELSE 0

\* C11: every key of the registry is the name of its program and is held
\* once; no two MultiChSeq objects of one name are written at once, and no
\* channel's table holds more sequences than there are names of written
\* programs on that channel; an assignment under a key that is not the
\* program's name raises and changes nothing; an assignment under a
\* registered key that returns has deleted a written old program from the
\* devices before the new one was written and has taken it out of the
\* registry.
C11_OneProgramPerName ==
    [][ /\ \A i, j \in DOMAIN reg' : reg'[i] = reg'[j] => i = j
        /\ DOMAIN vals' = Range(reg')
        /\ \A k \in Range(reg') : progs'[vals'[k]].name = k
        /\ \A o1, o2 \in DOMAIN progs' :
              (o1 # o2 /\ progs'[o1].name = progs'[o2].name)
                  => ~(progs'[o1].written /\ progs'[o2].written)
        /\ \A c \in DOMAIN awgs' :
              StoredSequences(awgs'[c]) <=
                  Cardinality({progs'[o].name : o \in
                      {x \in DOMAIN progs' : progs'[x].written /\ c \in progs'[x].ch_dict}})
        /\ (call'.op = "setitem" /\ progs[call'.value].name # call'.key) =>
              /\ ~call'.ok
              /\ UNCHANGED <<reg, vals, progs, awgs>>
        /\ (call'.op = "setitem" /\ call'.ok /\ call'.key \in Range(reg)) =>
              LET old == vals[call'.key] IN
              /\ vals'[call'.key] = call'.value
              /\ old # call'.value => ~progs'[old].written
              /\ progs[old].written =>
                    /\ LogIndex(log', <<"delete", old>>) > 0
                    /\ LogIndex(log', <<"write", call'.value>>) > 0 =>
                          LogIndex(log', <<"delete", old>>)
                              < LogIndex(log', <<"write", call'.value>>)
      ]_vars

\* the written program a has been replaced by the other object named a,
\* which is written now
C11_Witness ==
    /\ call.op = "setitem" /\ call.ok /\ call.key = "a" /\ call.value = "a2"
    /\ LogIndex(log, <<"delete", "a">>) > 0
    /\ LogIndex(log, <<"write", "a2">>) > LogIndex(log, <<"delete", "a">>)
    /\ progs["a2"].written /\ ~progs["a"].written

----------------------------------------------------------------------------
(* Properties of a write that fails, of the abort flag and of deletion.    *)

\* the channel has been written in this step: its table has one sequence more
ChannelWritten(before, after) == StoredSequences(after) = StoredSequences(before) + 1

\* C12: a write_to_awg_memory in which the write of one channel fails raises
\* an error that names that channel (the first channel in the order of
\* iteration whose device answers with an error); the channels before it in
\* that order are written and stay so, the channels after it are not
\* touched, and the written flag stays False.
C12_WriteFailure ==
    [][ call'.op = "write_to_awg_memory" =>
          LET chans == ChannelsInOrder(progs[WrObject].ch_dict, cfgOrder)
              bad == {i \in DOMAIN chans : awgs[chans[i]].fault}
          IN IF bad = {}
             THEN /\ call'.ok
                  /\ progs'[WrObject].written
                  /\ \A i \in DOMAIN chans : ChannelWritten(awgs[chans[i]], awgs'[chans[i]])
             ELSE \E f \in bad :
                  /\ \A i \in bad : f <= i
                  /\ ~call'.ok
                  /\ call'.channel = chans[f]
                  /\ ~progs'[WrObject].written
                  /\ \A i \in 1 .. f - 1 : ChannelWritten(awgs[chans[i]], awgs'[chans[i]])
                  /\ \A i \in f + 1 .. Len(chans) : awgs'[chans[i]] = awgs[chans[i]]
      ]_vars

\* a write over both devices failed on its third channel
C12_Witness ==
    /\ call.op = "write_to_awg_memory" /\ ~call.ok
    /\ progs[WrObject].ch_dict = CH_DICT_FULL
    /\ call.channel = ChannelsInOrder(CH_DICT_FULL, cfgOrder)[3]
    /\ StoredSequences(awgs[ChannelsInOrder(CH_DICT_FULL, cfgOrder)[1]]) = 1
    /\ StoredSequences(awgs[ChannelsInOrder(CH_DICT_FULL, cfgOrder)[4]]) = 0

\* C13: in write_to_awg_memory with an abort flag, once the flag has been
\* seen set before the write of a channel, no channel of any device is
\* written any more in that call, whatever another thread does to the flag
\* meanwhile; what was written before stays written.
C13_AbortStopsBatch ==
    [][ pc[Writer].observed => awgs' = awgs ]_vars

\* the segment ids recorded in the rows that are not aliases
RecordedSegments(rows) == {rows[i].segment_id : i \in {j \in DOMAIN rows : rows[j].own}}

\* what delete_sequence requires of the sequence and the channel
DeleteSequenceAllowed(chan, rows, run) ==
    /\ rows # << >>
    /\ \A i \in DOMAIN rows : rows[i].own =>
          /\ rows[i].segment_id # 0
          /\ \E g \in chan.segments : g.sid = rows[i].segment_id
    /\ \E j \in DOMAIN SequencerTable_catalogue(SequencerTable_data(chan.table).data) :
          SequencerTable_catalogue(SequencerTable_data(chan.table).data)[j]
             = <<rows[1].sequence_id, Len(rows)>>
    /\ ~run

\* C14: delete_sequence changes the sequencer table or the segments only if
\* every row that is not an alias has a segment id that is in the segment
\* catalogue, the sequence id of the first row is the start of a sequence in
\* the table that is as long as the sequence, and the channel is not
\* running; otherwise it raises and the table and the segments are as
\* before.
C14_DeleteSequenceValidates ==
    [][ call'.op = "delete_sequence" =>
          LET rows == progs[call'.key].sequences[DelChannel]
              allowed == DeleteSequenceAllowed(awgs[DelChannel], rows, running[DelChannel[1]])
          IN /\ awgs' # awgs => allowed
             /\ ~allowed => ~call'.ok /\ awgs' = awgs
             /\ call'.ok =>
                   /\ StoredSequences(awgs'[DelChannel]) = StoredSequences(awgs[DelChannel]) - 1
                   /\ \A g \in awgs'[DelChannel].segments : g.sid \notin RecordedSegments(rows)
      ]_vars

\* a delete_sequence was refused for the length alone: the segment ids and
\* the sequence id of the one-row Sequence name memory of the other one
C14_Witness ==
    /\ call.op = "delete_sequence" /\ ~call.ok
    /\ ~running[DelChannel[1]] /\ ~awgs[DelChannel].fault
    /\ StoredSequences(awgs[DelChannel]) = 1
    /\ LET rows == progs[call.key].sequences[DelChannel]
           cat == SequencerTable_catalogue(SequencerTable_data(awgs[DelChannel].table).data)
       IN /\ \A i \in DOMAIN rows : rows[i].own =>
                \E g \in awgs[DelChannel].segments : g.sid = rows[i].segment_id
          /\ \E j \in DOMAIN cat : cat[j][1] = rows[1].sequence_id /\ cat[j][2] # Len(rows)

----------------------------------------------------------------------------
(* Properties of run, of the trigger segments and of the debug mode.       *)

\* the entries of a log of one kind, in their order
LogOf(entries, kind) == SelectSeq(entries, LAMBDA e : e[1] = kind)

\* the playback pointer run gives a channel: the first row of the program
\* on a channel of its scope, the first row of 'wait' on any other
PlaybackPointer(objs, ids, oid, c) ==
    IF c \in objs[oid].ch_dict THEN objs[oid].sequences[c][1].sequence_id
    ELSE objs[ids["wait"]].sequences[c][1].sequence_id

\* C15: run(trigger) first points every channel of the full device table
\* to the first row of the program (channel in its scope) or of the 'wait'
\* program (any other channel), then arms the devices of the scope and sets
\* the outputs, and after all that sends at most one trigger: none when
\* trigger is False, else one, to the master device when the scope has more
\* than one device and to the only device when it has one.
C15_RunOrder ==
    [][ call'.op = "run" /\ call'.ok =>
          LET oid == vals[call'.key]
              cd == progs[oid].ch_dict
              full == ChannelsInOrder(CH_DICT_FULL, cfgOrder)
              n == Len(full)
              devs == DevicesOf(cd)
          IN /\ Len(log') = 2 * n + Cardinality(devs) + (IF call'.value THEN 1 ELSE 0)
             /\ \A i \in 1 .. n :
                   /\ log'[i] = <<"select", full[i], PlaybackPointer(progs, vals, oid, full[i])>>
                   /\ awgs'[full[i]].selected_sequence
                         = PlaybackPointer(progs, vals, oid, full[i])
                   /\ awgs'[full[i]].output = (IF full[i] \in cd THEN 1 ELSE 0)
             /\ {log'[i] : i \in n + 1 .. n + Cardinality(devs)}
                   = {<<"run", dev>> : dev \in devs}
             /\ \A dev \in devs : running'[dev]
             /\ \A i \in 1 .. n :
                   log'[n + Cardinality(devs) + i]
                      = <<"output", full[i], IF full[i] \in cd THEN 1 ELSE 0>>
             /\ call'.value =>
                   log'[Len(log')]
                      = <<"begin", IF Cardinality(devs) > 1 THEN MASTER_AWG
                                   ELSE CHOOSE dev \in devs : TRUE>>
             /\ Len(LogOf(log', "begin")) = (IF call'.value THEN 1 ELSE 0)
      ]_vars

\* a program over both devices has been run with a trigger, and a program
\* on one device has been run without
C15_Witness ==
    /\ call.op = "run" /\ call.ok /\ call.value
    /\ Cardinality(DevicesOf(progs[vals[call.key]].ch_dict)) = 2
    /\ progs[vals[call.key]].ch_dict # CH_DICT_FULL
    /\ log[Len(log)] = <<"begin", MASTER_AWG>>

\* the rows that are trigger segments of the master device
TriggerRows(rows) ==
    {i \in DOMAIN rows : rows[i].own /\ rows[i].name = "triggerwait"}

\* the rows that wait for the trigger on another device
WaitTriggerRows(rows) ==
    {i \in DOMAIN rows : rows[i].own /\ rows[i].advance_mode = "SING"}

\* C16: finalize adds trigger segments exactly when the scope has more than
\* one device: then the first segment of every channel of the master device
\* is a trigger segment, the sync marker of its trigger step being set on
\* the master trigger channel and on no other, and every channel of another
\* device gets one wait segment of advance mode SING; a program on a single
\* device gets neither.
C16_TriggerSegments ==
    [][ call'.op = "finalize" /\ call'.ok =>
          \A c \in ch_dict :
             LET rows == sequences'[c] IN
             IF Cardinality(DevicesOf(ch_dict)) > 1
             THEN IF c[1] = MASTER_AWG
                  THEN /\ TriggerRows(rows) = {1}
                       /\ WaitTriggerRows(rows) = {}
                       /\ rows[1].steps[1].name = "trigger"
                       /\ rows[1].steps[1].sync_marker <=> c[2] = MASTER_TRIGGER_CHANNEL
                       /\ \A j \in 2 .. Len(rows[1].steps) : ~rows[1].steps[j].sync_marker
                  ELSE /\ TriggerRows(rows) = {}
                       /\ Cardinality(WaitTriggerRows(rows)) = 1
                       /\ \A i \in WaitTriggerRows(rows) :
                             /\ Len(rows[i].steps) = 1
                             /\ rows[i].steps[1].type = "wait"
             ELSE TriggerRows(rows) = {} /\ WaitTriggerRows(rows) = {}
      ]_vars

\* a program over all channels of both devices has been finalized
C16_Witness ==
    /\ call.op = "finalize" /\ call.ok
    /\ ch_dict = CH_DICT_FULL
    /\ TriggerRows(sequences[<<MASTER_AWG, 2>>]) = {1}
    /\ ~sequences[<<MASTER_AWG, 2>>][1].steps[1].sync_marker
    /\ WaitTriggerRows(sequences[<<"128m", 2>>]) # {}

\* C17: while debug_mode is set no call on the registry (d[key] = value,
\* del d[key], d.debug_mode = val, after a construction in either mode)
\* makes a device do anything: nothing is written to or deleted from device
\* memory, also when debug_mode was switched on after programs had been
\* written; a program registered in debug mode is finalized all the same.
C17_DebugModeSilent ==
    [][ debug_mode' /\ call'.op \in {"setitem", "delitem", "debug_mode"} =>
          /\ log' = << >>
          /\ awgs' = awgs
          /\ call'.op = "setitem" /\ call'.ok => progs'[call'.value].status # 0
      ]_vars

----------------------------------------------------------------------------
(* Properties of connect_to_awgs.                                          *)

\* C18: connect_to_awgs returns only after every worker has ended, and for
\* every interleaving of the workers the handle table then holds a handle
\* for every configured device: the device is a key of the table and is
\* listed by its keys().
C18_AllHandlesAtReturn ==
    pc[Caller].at = "returned" =>
       /\ \A name \in Devices : pc[name].at \in {"done", "raised"}
       /\ \A name \in Devices :
             /\ name \in handles.dict
             /\ name \in Range(OrderedDict_keys(handles, "root", Cardinality(Devices)))

----------------------------------------------------------------------------
(* Properties of the amplitudes of a WaveStep.                             *)

\* C20: the construction of a sine WaveStep and the assignment of its
\* amplitudes fail at once when the sum of the amplitudes, one amplitude
\* being taken for every frequency, is above 1.0: no WaveStep of a segment
\* has such a sum.
C20_NoAmplitudeOverflow ==
    \A i \in DOMAIN dl : ~WaveStep_amplitudes(dl[i]).raised

----------------------------------------------------------------------------
(* Properties of add_step.                                                 *)

\* the lengths of the steps of the last row of a channel
LastRowLengths(rows) ==
    [j \in DOMAIN rows[Len(rows)].steps |-> rows[Len(rows)].steps[j].length_smpl]

\* C19: an add_step that succeeds puts one WaveStep into every channel's
\* Sequence, in the same segment at the same place, and these WaveSteps are
\* all of one length; an add_step whose given length and the lengths of the
\* single channels (of a robust step: the length of its table) differ by
\* more than the tolerance fails, and a failed add_step changes nothing.
C19_AddStepOneLength ==
    [][ call'.op = "add_step" =>
          /\ call'.ok =>
                /\ \A c \in ch_dict :
                      /\ Len(sequences'[c]) = Len(sequences[c])
                      /\ Len(LastRowLengths(sequences'[c]))
                            = Len(LastRowLengths(sequences[c])) + 1
                      /\ SubSeq(LastRowLengths(sequences'[c]), 1,
                                Len(LastRowLengths(sequences[c])))
                            = LastRowLengths(sequences[c])
                /\ \A c, d \in ch_dict :
                      LastRowLengths(sequences'[c])[Len(LastRowLengths(sequences'[c]))]
                         = LastRowLengths(sequences'[d])[Len(LastRowLengths(sequences'[d]))]
          /\ ~call'.ok => sequences' = sequences
          /\ (\E c \in DOMAIN call'.pd :
                 \E l \in {IF call'.pd[c].type = "robust" THEN call'.pd[c].wave_file
                           ELSE call'.pd[c].length_smpl} :
                    10 * Max(l - call'.length_smpl, call'.length_smpl - l) > LengthTolerance)
                => ~call'.ok
      ]_vars

----------------------------------------------------------------------------
(* Properties of the length conversions.                                   *)

\* the distance of two durations in millionths of a sample period
DurationDistance(a, b) == Abs((a.smpl - b.smpl) * SamplePeriod + a.frac - b.frac)

\* C21: length_mus2length_smpl accepts a duration exactly when it lies
\* within 1e-2 sample period of a whole number of samples, whatever its
\* magnitude, and then returns the sample count n whose duration
\* length_smpl2length_mus(n) is the given one within the same tolerance;
\* any other duration raises.
C21_AcceptsWithinTolerance ==
    call.op = "length_mus2length_smpl" =>
       /\ call.ok <=>
             \E n \in {call.length_mus.smpl, call.length_mus.smpl + 1} :
                100 * DurationDistance(call.length_mus, length_smpl2length_mus(n))
                   <= SamplePeriod
       /\ call.ok =>
             100 * DurationDistance(length_smpl2length_mus(call.length_smpl),
                                    call.length_mus) <= SamplePeriod

----------------------------------------------------------------------------
(* Properties of one Sequence.                                             *)

\* C22: a Sequence that holds at least one segment has a total length of
\* at least 320 samples that is a multiple of 64, whatever the contents and
\* the loop counts (0 to 2 ** 32 - 1) of its segments.
C22_SequenceMinimumLength ==
    encSeq.rows # << >> =>
       /\ sequence_length_smpl(encSeq.rows) >= MinSegmentLength
       /\ sequence_length_smpl(encSeq.rows) % Granularity = 0

\* the segment's mean squared amplitude summed over its samples
SegmentEnergy(rows, r) == StepPowerSum(data_list(rows, r))

\* C23: the normalized average power of a Sequence is the mean squared
\* amplitude over its playback: the per-step power weighted with the step's
\* duration, every segment counted loop_count times, over the summed
\* duration; the loop count of the Sequence does not change it.
C23_PowerIsTimeWeightedMean ==
    (/\ encSeq.rows # << >>
     /\ encSeq.loop_count >= 1
     /\ \A r \in Range(encSeq.rows) : r.loop_count >= 1) =>
       \E p \in {Sequence_normalized_avg_sine_power(encSeq)} :
          p.n * SumSeq([i \in DOMAIN encSeq.rows |->
                          repeated_length_smpl(encSeq.rows, encSeq.rows[i])])
          = p.d * SumSeq([i \in DOMAIN encSeq.rows |->
                            encSeq.rows[i].loop_count
                               * SegmentEnergy(encSeq.rows, encSeq.rows[i])])

----------------------------------------------------------------------------
(* Properties of writing to and deleting from device memory.               *)

\* a segment of the channel's sequence is in the memory of the channel
Resident(seqs, mem, c) ==
    /\ c \in DOMAIN mem
    /\ \E i \in DOMAIN seqs[c] :
          seqs[c][i].own /\ seqs[c][i].segment_id \in {g.sid : g \in mem[c].segments}

\* the squared amplitude summed over the samples the rows play: every
\* segment loop_count times
PlaybackEnergy(rows) ==
    SumSeq([i \in DOMAIN rows |->
               rows[i].loop_count * StepPowerSum(data_list(rows, rows[i]))])

\* C24: write_to_awg_memory without ignore_max_avg_power raises before
\* anything is written when a channel of the scope is above its ceiling, so
\* a program registered outside debug mode is never in device memory while
\* amplifier power times its normalized average power (the mean squared
\* amplitude over its duration) is above a ceiling.
C24_NoResidentAboveCeiling ==
    \A c \in ch_dict :
       (HasCeiling(c) /\ written /\ Resident(sequences, awgs, c)) =>
          AMPLIFIER_POWER(c) * PlaybackEnergy(sequences[c])
             <= MAX_SINE_AVG_POWER(c) * sequence_length_smpl(sequences[c])

\* C25: a MultiChSeq's written flag is True only while the sequence of
\* every channel of its scope is in device memory; a write stopped by the
\* abort flag or by a failing channel does not set it.
C25_WrittenMeansResident ==
    progs[WrObject].written =>
       \A c \in progs[WrObject].ch_dict : Resident(progs[WrObject].sequences, awgs, c)

----------------------------------------------------------------------------
(* Properties of precompiling.                                             *)

\* C26: precompile_samples_waveform synthesizes every SequenceStep that is
\* not an alias at the coherent offset Channel.write_sequence uses for it
\* when called with sample_offset 0: the sum of loop_count times segment
\* length over all rows before it, alias rows included.
C26_PrecompileOffsets ==
    [][(call'.op = "precompile" /\ call'.ok) =>
           \A c \in ch_dict :
              precomp'[c] = write_sequence_offsets_from(sequences'[c], 1, 0)
      ]_vars

----------------------------------------------------------------------------
(* Properties of add_step and of the write flags.                          *)

\* C27: add_step with the default indices changes only the last entry of
\* each channel's segment list; the WaveStep list and the sample length of
\* every earlier segment stay as they were, also when the last entry is an
\* alias made by start_new_segment(reuse_segment=True).
C27_AddStepChangesLastOnly ==
    [][(call'.op = "add_step" /\ call'.ok) =>
           \A c \in ch_dict : \A i \in 1 .. Len(sequences[c]) - 1 :
              /\ data_list(sequences'[c], sequences'[c][i])
                    = data_list(sequences[c], sequences[c][i])
              /\ SequenceStep_length_smpl(sequences'[c], sequences'[c][i])
                    = SequenceStep_length_smpl(sequences[c], sequences[c][i])
      ]_vars

----------------------------------------------------------------------------
\* C29: assigning the step list of a SequenceStep (an empty list included),
\* inserting an element, replacing an element by index and removing an
\* element each leave the step's write_segment_memory flag set to True.
C29_ListChangeSetsFlag ==
    [][dlOp'.op \in {"assign", "insert", "set", "del"} /\ dlOp'.ok
          => dlOp'.write_segment_memory]_vars

----------------------------------------------------------------------------
\* C30: indexing a list_repeat of exactly one element returns that element
\* for every non-negative index, and indexing a list_repeat of more than one
\* element at an out-of-range index raises an error instead of returning an
\* element.
C30_RepeatOneRaiseMany ==
    dlOp.op = "getitem" =>
        /\ Len(dl) = 1 => ~dlOp.raised /\ dlOp.value = dl[1]
        /\ Len(dl) > 1 /\ dlOp.i >= Len(dl) => dlOp.raised

----------------------------------------------------------------------------
(* Properties of the rows of the sequencer tables.                         *)

\* the keys of the registered programs that have channel c in their scope,
\* in the registry's insertion order
RegisteredOn(c) == SelectSeq(reg, LAMBDA key : c \in progs[vals[key]].ch_dict)

\* the rows of the j-th of these programs on channel c
RowsOn(c, j) == progs[vals[RegisteredOn(c)[j]]].sequences[c]

\* the row at which the j-th of these programs starts when the programs
\* follow each other from row 0 on
FirstRow(c, j) == SumSeq([m \in 1 .. j - 1 |-> Len(RowsOn(c, m))])

====
